---------------------------- MODULE Spec2Model ----------------------------
(***************************************************************************)
(* LC-3 simulator (src/lc3sim.c): the fetch/decode/execute loop of main,   *)
(* the privilege / exception unit, the memory-mapped I/O registers and the *)
(* OS image OSProgram that is copied to memory[0 .. 0x4ff].                *)
(*                                                                         *)
(* Words are uint16_t: every assignment to a uint16_t is taken mod 2^16    *)
(* (W).  pc is a pointer into the memory array in the source; here it is   *)
(* the integer element offset pc - memory, which the source lets leave     *)
(* 0 .. 0x10001.  Dereferencing a pointer outside the allocation is        *)
(* undefined behaviour: the model lets it crash the host process or yield  *)
(* any word of WildWords.  The host is assumed little-endian (fread of an  *)
(* object file followed by swap16).                                        *)
(***************************************************************************)
EXTENDS Integers, Sequences, FiniteSets, TLC

\* ------------------------------------------------------------ bounds
\* Longest output buffer (ddrct) the model follows; a run stops growing there.
MaxOut == 300
\* Number of out-of-allocation reads a run may survive before it must crash.
MaxWild == 2
\* Deepest nesting of TRAPs not yet returned from that the model follows.
MaxFrames == 8

\* ------------------------------------------------------- program constants
FLAG_N == 4                \* 1 << 2
FLAG_Z == 2                \* 1 << 1
FLAG_P == 1                \* 1 << 0

OS_KBSR == 65024           \* 0xFE00
OS_KBDR == 65026           \* 0xFE02
OS_DSR  == 65028           \* 0xFE04
OS_DDR  == 65030           \* 0xFE06
OS_PSR  == 65532           \* 0xFFFC
OS_MCR  == 65534           \* 0xFFFE
MASK_HIGH == 32767         \* 0x7FFF
OS_SSP  == 65536           \* 0x10000, supervisor R6
OS_USP  == 65537           \* 0x10001, user R6

BAD_TRAP  == 512           \* 0x200
PUTS_TRAP == 571           \* 0x23b
HALT_TRAP == 538           \* 0x21a
OUT_TRAP  == 586           \* 0x24a
BAD_INT   == 788           \* 0x314
OS_START  == 560           \* 0x230
USER_PC   == 570           \* 0x23a
GETC_TRAP == 596           \* 0x254
IN_TRAP   == 602           \* 0x25a
PUTSP_TRAP == 634          \* 0x27a
PRIV_MODE_EXCEPTION == 681 \* 0x2a9
IGL_INS_EXCEPTION == 714   \* 0x2ca
ACV_EXCEPTION == 752       \* 0x2f0

\* calloc(0x10000 + 2, sizeof(uint16_t)): the cells 0 .. 0x10001
MemSize == 65538
\* sizeof(OSProgram) / sizeof(uint16_t)
OsSize == 1280
\* bit 15 of a word: 1u << 15
Bit15 == 32768

\* --------------------------------------------------------- 16-bit words
Word == 0 .. 65535

\* conversion to uint16_t
W(x) == x % 65536

\* conversion of a uint16_t to int16_t
Int16(x) == IF W(x) >= 32768 THEN W(x) - 65536 ELSE W(x)

Pow2(n) == 2 ^ n

Bit(x, n) == (x \div Pow2(n)) % 2

RECURSIVE AndBits(_, _, _)
AndBits(a, b, n) ==
    IF n = 0 THEN 0
    ELSE (a % 2) * (b % 2) + 2 * AndBits(a \div 2, b \div 2, n - 1)

\* a & b, a | b, ~a on 16-bit words (each operand is bound, and so
\* evaluated, once)
BitAnd(a, b) ==
    CHOOSE r \in {AndBits(x, y, 16) : x \in {a}, y \in {b}} : TRUE
BitOr(a, b) ==
    CHOOSE r \in {x + y - BitAnd(x, y) : x \in {a}, y \in {b}} : TRUE
BitNot(a) == 65535 - a

\* user-mode bit of a PSR value: psr & (1u << 15)
UserBit(psr) == Bit(psr, 15) = 1

\* ------------------------------------------------------- sign extension
\* input | ~0b11111 etc. as int16_t; the callers pass the masked field
sext5(input) ==
    IF Bit(input, 4) = 1 THEN Int16(BitOr(input, 65535 - 31)) ELSE Int16(input)

\* mutant of sext9: bit 8 is not propagated
sext9_NoExtend(input) == Int16(input)

sext9(input) ==
    IF Bit(input, 8) = 1 THEN Int16(BitOr(input, 65535 - 511)) ELSE Int16(input)

sext11(input) ==
    IF Bit(input, 10) = 1 THEN Int16(BitOr(input, 65535 - 2047)) ELSE Int16(input)

sext6(input) ==
    IF Bit(input, 5) = 1 THEN Int16(BitOr(input, 65535 - 63)) ELSE Int16(input)

\* --------------------------------------------------- ASM to binary macros
\* The fields of one macro do not overlap, so the bitwise or is a sum.
ADDR(dst, r1, r2) == 4096 + (dst % 8) * 512 + (r1 % 8) * 64 + (r2 % 8)
ADDIMM(dst, r1, imm5) == 4096 + (dst % 8) * 512 + (r1 % 8) * 64 + 32 + (imm5 % 32)
ANDR(dst, r1, r2) == 20480 + (dst % 8) * 512 + (r1 % 8) * 64 + (r2 % 8)
ANDIMM(dst, r1, imm5) == 20480 + (dst % 8) * 512 + (r1 % 8) * 64 + 32 + (imm5 % 32)
STR(src, base, offset6) == 28672 + (src % 8) * 512 + (base % 8) * 64 + (offset6 % 64)
LEA(dst, offset) == 57344 + (dst % 8) * 512 + (offset % 512)
LD(dst, offset9) == 8192 + (dst % 8) * 512 + (offset9 % 512)
LDI(dst, offset9) == 40960 + (dst % 8) * 512 + (offset9 % 512)
LDR(dst, src, offset6) == 24576 + (dst % 8) * 512 + (src % 8) * 64 + (offset6 % 64)
STI(src, offset9) == 45056 + (src % 8) * 512 + (offset9 % 512)
BR(nzp, offset9) == (nzp % 8) * 512 + (offset9 % 512)
JMP(r) == 49152 + (r % 8) * 64
TRAP(vec8) == 61440 + (vec8 % 256)
RTI == 32768
COMPOSE_CH(ch1, ch2) == (ch1 % 256) + (ch2 % 256) * 256

\* ------------------------------------------------------------ OS image
\* Handler code and data, in the order of the initializer of OSProgram.
\* Character constants are written as their codes.
\* src/lc3sim.c:618-644, words 0x200..0x219
BadTrapCode ==
    << LEA(0, 2), TRAP(34), TRAP(37),
       10, 10, 66, 97, 100, 32, 84, 114, 97, 112, 32, 69,
       120, 101, 99, 117, 116, 101, 100, 33, 10, 10, 0 >>

\* mutant of HaltTrapCode: the word read from MCR is stored back unmasked
HaltTrapCode_KeepsClock ==
    << LEA(0, 8), TRAP(34), LDI(0, 4), LD(1, 4),
       ADDIMM(0, 0, 0), STI(0, 1), BR(7, -5), OS_MCR,
       MASK_HIGH,
       10, 10, 72, 97, 108, 116, 105, 110, 103, 33, 10, 10,
       0 >>

\* src/lc3sim.c:645-667, words 0x21a..0x22f
HaltTrapCode ==
    << LEA(0, 8), TRAP(34), LDI(0, 4), LD(1, 4),
       ANDR(0, 0, 1), STI(0, 1), BR(7, -5), OS_MCR,
       MASK_HIGH,
       10, 10, 72, 97, 108, 116, 105, 110, 103, 33, 10, 10,
       0 >>

\* mutant of OsStartCode: the user PC is pushed before the user PSR
OsStartCode_PcFirst ==
    << LD(6, 8), LD(0, 8), ADDIMM(6, 6, -1), STR(0, 6, 0),
       LD(0, 3), ADDIMM(6, 6, -1), STR(0, 6, 0), RTI,
       32770, 12288, 12288 >>

\* src/lc3sim.c:668-679, words 0x230..0x23a
OsStartCode ==
    << LD(6, 8), LD(0, 6), ADDIMM(6, 6, -1), STR(0, 6, 0),
       LD(0, 5), ADDIMM(6, 6, -1), STR(0, 6, 0), RTI,
       32770, 12288, 12288 >>

\* src/lc3sim.c:680-695, words 0x23b..0x249
PutsTrapCode ==
    << ADDIMM(6, 6, -1), STR(0, 6, 0), ADDIMM(6, 6, -1), STR(1, 6, 0),
       ADDIMM(1, 0, 0), LDR(0, 1, 0), BR(2, 3), TRAP(33),
       ADDIMM(1, 1, 1), BR(7, -5), LDR(1, 6, 0), ADDIMM(6, 6, 1),
       LDR(0, 6, 0), ADDIMM(6, 6, 1), RTI >>

\* src/lc3sim.c:696-706, words 0x24a..0x253
OutTrapCode ==
    << ADDIMM(6, 6, -1), STR(1, 6, 0), LDI(1, 5), BR(3, -2),
       STI(0, 4), LDR(1, 6, 0), ADDIMM(6, 6, 1), RTI,
       OS_DSR, OS_DDR >>

\* mutant of GetcTrapCode: the branch of the polling loop is never taken
GetcTrapCode_NoPoll ==
    << LDI(0, 3), BR(0, -2), LDI(0, 2), RTI,
       OS_KBSR, OS_KBDR >>

\* src/lc3sim.c:707-713, words 0x254..0x259
GetcTrapCode ==
    << LDI(0, 3), BR(3, -2), LDI(0, 2), RTI,
       OS_KBSR, OS_KBDR >>

\* src/lc3sim.c:714-747, words 0x25a..0x279
InTrapCode ==
    << LEA(0, 11), TRAP(34), TRAP(32), TRAP(33),
       ADDIMM(6, 6, -1), STR(0, 6, 0), ANDIMM(0, 0, 0), ADDIMM(0, 0, 10),
       TRAP(33), LDR(0, 6, 0), ADDIMM(6, 6, 1), RTI,
       69, 110, 116, 101, 114, 32, 97, 32, 67, 104, 97, 114,
       97, 99, 116, 101, 114, 58, 32, 0 >>

\* src/lc3sim.c:748-796, words 0x27a..0x2a8
PutspTrapCode ==
    << ADDIMM(6, 6, -1), STR(0, 6, 0), ADDIMM(6, 6, -1), STR(1, 6, 0),
       ADDIMM(6, 6, -1), STR(2, 6, 0), ADDIMM(6, 6, -1), STR(3, 6, 0),
       ADDIMM(6, 6, -1), STR(4, 6, 0), ADDIMM(6, 6, -1), STR(5, 6, 0),
       ADDIMM(1, 0, 0), LD(4, 32), LD(2, 29), LDR(0, 1, 0),
       BR(2, 14), ANDR(0, 0, 2), TRAP(33), LD(2, 25),
       LDR(5, 1, 0), ANDR(5, 5, 2), BR(2, 6), ANDIMM(0, 0, 0),
       ADDR(5, 5, 4), ADDIMM(0, 0, 1), ADDR(3, 5, 4), BR(3, -4),
       TRAP(33), ADDIMM(1, 1, 1), BR(7, -17), LDR(5, 6, 0),
       ADDIMM(6, 6, 1), LDR(4, 6, 0), ADDIMM(6, 6, 1), LDR(3, 6, 0),
       ADDIMM(6, 6, 1), LDR(2, 6, 0), ADDIMM(6, 6, 1), LDR(1, 6, 0),
       ADDIMM(6, 6, 1), LDR(0, 6, 0), ADDIMM(6, 6, 1), RTI,
       255, 65280, 65280 >>

\* src/lc3sim.c:798-831, words 0x2a9..0x2c9
PrivExcCode ==
    << LEA(0, 2), TRAP(34), TRAP(37),
       10, 10, 80, 114, 105, 118, 105, 108, 101, 103, 101, 32,
       109, 111, 100, 101, 32, 101, 120, 99, 101, 112, 116, 105,
       111, 110, 33, 10, 10, 0 >>

\* src/lc3sim.c:832-870, words 0x2ca..0x2ef
IglInsExcCode ==
    << LEA(0, 2), TRAP(34), TRAP(37),
       10, 10, 73, 108, 108, 101, 103, 97, 108, 32, 105, 110,
       115, 116, 114, 117, 99, 116, 105, 111, 110, 32, 101, 120,
       99, 101, 112, 116, 105, 111, 110, 33, 10, 10, 0 >>

\* src/lc3sim.c:871-907, words 0x2f0..0x312
AcvExcCode ==
    << LEA(0, 2), TRAP(34), TRAP(37),
       10, 10, 65, 99, 99, 101, 115, 115, 32, 86, 105, 111,
       108, 97, 116, 105, 111, 110, 32, 69, 120, 99, 101, 112,
       116, 105, 111, 110, 33, 10, 10, 0 >>

\* src/lc3sim.c:908-921, words 0x313..0x31f
BadIntCode ==
    << LEA(0, 2), TRAP(36), TRAP(37), COMPOSE_CH(10, 10),
       COMPOSE_CH(66, 97), COMPOSE_CH(100, 32), COMPOSE_CH(73, 110), COMPOSE_CH(116, 101),
       COMPOSE_CH(114, 114), COMPOSE_CH(117, 112), COMPOSE_CH(116, 33), COMPOSE_CH(10, 10),
       0 >>

\* src/lc3sim.c:102-359: the trap vector table, slots 0x00 .. 0xff
TrapVector(v) ==
    CASE v = 32 -> GETC_TRAP
      [] v = 33 -> OUT_TRAP
      [] v = 34 -> PUTS_TRAP
      [] v = 35 -> IN_TRAP
      [] v = 36 -> PUTSP_TRAP
      [] v = 37 -> HALT_TRAP
      [] OTHER -> BAD_TRAP

\* src/lc3sim.c:360-616: the interrupt vector table, slots 0x100 .. 0x1ff
IntVector(c) ==
    CASE c = 0 -> PRIV_MODE_EXCEPTION
      [] c = 1 -> IGL_INS_EXCEPTION
      [] c = 2 -> ACV_EXCEPTION
      [] OTHER -> BAD_INT

OSCode ==
    BadTrapCode \o HaltTrapCode \o OsStartCode \o PutsTrapCode \o OutTrapCode
    \o GetcTrapCode \o InTrapCode \o PutspTrapCode \o PrivExcCode
    \o IglInsExcCode \o AcvExcCode \o BadIntCode

\* const uint16_t OSProgram[0x500]; the tail of the array is zero
OSProgram ==
    [i \in 0 .. OsSize - 1 |->
        IF i < 256 THEN TrapVector(i)
        ELSE IF i < 512 THEN IntVector(i - 256)
        ELSE IF i - 512 < Len(OSCode) THEN OSCode[i - 511]
        ELSE 0]

\* ------------------------------------------------------------- the state
VARIABLES
    image,         \* memory[0 .. 0x4ff] as memcpy(memory, OSProgram) leaves it
    mem,           \* memory[0 .. 0x10001], as the map of the cells changed
    reg,           \* registers[8]
    pc,            \* pc - memory
    buffer,        \* buffer[0 .. ddrct-1], the host output buffer
    input_index,   \* cursor into input_buffer
    input_buffer,  \* the scripted input (--input=)
    crashed,       \* the host process died on an out-of-allocation access
    wild,          \* number of out-of-allocation reads survived so far
    instr,         \* the instruction word of the last iteration, -1 before
    pre,           \* mem, reg, pc, buffer, input_index before that iteration
    frames,        \* what each TRAP not yet returned from found and pushed
    popped,        \* the frame the last iteration's RTI returned from
    loaded,        \* the object file handed to parse_program_from_bin alone
    cmdline,       \* argv[1 ..] and how far main has got with it
    ddrsize,       \* the allocated size of buffer
    terminator,    \* buffer[ddrct], the byte a print of buffer stops at
    debug,         \* --debug was given
    debug_ctx,     \* struct debugger_ctx: cont, next_bp, breakpoints, size
    stdin,         \* the lines on standard input and how many were read
    at,            \* "run": in the switch; "prompt": in the debug_cmd loop
    call           \* a helper function applied on its own: name, input, result

\* the variables of the debugger and of the helper calls
dbgvars == << debug, debug_ctx, stdin, at >>

vars == << image, mem, reg, pc, buffer, input_index, input_buffer, crashed,
           wild, instr, pre, frames, popped, loaded, cmdline, ddrsize,
           terminator, debug, debug_ctx, stdin, at, call >>

\* struct debugger_ctx debug_ctx = {0}
BREAKPOINT_MAX == 67
NoDebugger ==
    [cont |-> 0, next_bp |-> 0, breakpoint_size |-> 0,
     breakpoints |-> [i \in 0 .. BREAKPOINT_MAX - 1 |-> 0]]

\* nothing on standard input
NoStdin == [script |-> << >>, read |-> 0]

\* no helper function is applied on its own
NoCall == [fn |-> "", ir |-> 0, input |-> 0, result |-> 0, done |-> TRUE]

\* int ddrsize = 0x100; buffer = calloc(ddrsize, 1); no --debug
NoDebug ==
    /\ ddrsize = 256
    /\ terminator = 0
    /\ debug = FALSE
    /\ debug_ctx = NoDebugger
    /\ stdin = NoStdin
    /\ at = "run"
    /\ call = NoCall

\* -------------------------------------------------------------- memory
\* memory is kept as the finite map mem of the cells that differ from what
\* calloc and memcpy(memory, OSProgram, sizeof(OSProgram)) leave: image in
\* 0 .. 0x4ff, zero elsewhere.
ImageAt(img, a) == IF a < OsSize THEN img[a] ELSE 0

\* (the operands are bound once, so that an operand which is itself a long
\* expression is evaluated once and not once per use)
ReadIn(img, m, a) ==
    CHOOSE w \in { IF k \in DOMAIN f THEN f[k] ELSE ImageAt(img, k)
                   : f \in {m}, k \in {a} } : TRUE

WriteIn(img, m, a, v) ==
    CHOOSE g \in { IF y = ImageAt(img, k)
                   THEN [x \in (DOMAIN f) \ {k} |-> f[x]]
                   ELSE [x \in (DOMAIN f) \cup {k} |-> IF x = k THEN y ELSE f[x]]
                   : f \in {m}, k \in {a}, y \in {v} } : TRUE

\* memory[a] and memory[a] = v during the run
Read(m, a) == ReadIn(image, m, a)
Write(m, a, v) == WriteIn(image, m, a, v)

EmptyMem == [x \in {} |-> 0]

\* a pointer memory + a that may be dereferenced
InBounds(a) == a >= 0 /\ a < MemSize

\* ---------------------------------------------------------- object files
Min(a, b) == IF a < b THEN a ELSE b

\* (x << 8) | (x >> 8) as uint16_t
swap16(x) == W(x * 256) + (x \div 256)

\* the uint16_t fread stores for two bytes of the file (little-endian host)
HostWord(b0, b1) == b0 + 256 * b1

RECURSIVE StoreWords(_, _, _, _, _)
\* the fread into addr[0 .. n-1] followed by the swap16 loop (the memory
\* written so far is bound, and so evaluated, at every word)
StoreWords(m, bytes, origin, k, n) ==
    IF k >= n THEN m
    ELSE CHOOSE r \in
            { StoreWords(f, bytes, origin, j, n) :
                f \in {WriteIn(OSProgram, m, origin + k,
                               swap16(HostWord(bytes[2 * k + 3],
                                               bytes[2 * k + 4])))},
                j \in {k + 1} } : TRUE

\* base - memory, the value parse_program_from_bin returns
LoadBase(bytes) == swap16(HostWord(bytes[1], bytes[2]))

\* memory after parse_program_from_bin(path, memory) as far as whole words
\* go; bytes holds at least the origin word
LoadBin(m, bytes) ==
    LET origin == LoadBase(bytes)
        max_read == W(65536 - origin)
        n == Min(max_read, (Len(bytes) - 2) \div 2)
    IN CHOOSE r \in { StoreWords(f, b, o, 0, c) :
                        f \in {m}, b \in {bytes}, o \in {origin}, c \in {n} }
          : TRUE

\* the memories parse_program_from_bin may leave when the file ends in the
\* middle of a word that fread was asked for: the element read in part is
\* indeterminate; the cell keeps its value, or (little-endian host, the
\* bytes copied as they come) its low byte is the last byte of the file
LoadOutcomes(m, bytes) ==
    LET origin == LoadBase(bytes)
        max_read == W(65536 - origin)
        n == Min(max_read, (Len(bytes) - 2) \div 2)
        whole == LoadBin(m, bytes)
        old == ReadIn(OSProgram, whole, origin + n)
    IN IF Len(bytes) % 2 = 1 /\ n < max_read
       THEN {whole,
             WriteIn(OSProgram, whole, origin + n,
                     (old \div 256) * 256 + bytes[Len(bytes)])}
       ELSE {whole}

RECURSIVE LoadAll(_, _)
\* the argument loop: every positional argument is loaded in order
LoadAll(m, files) ==
    IF files = << >> THEN m
    ELSE CHOOSE r \in { LoadAll(f, rest) : f \in {LoadBin(m, Head(files))},
                                          rest \in {Tail(files)} } : TRUE

RECURSIVE WordBytes(_)
WordBytes(ws) ==
    IF ws = << >> THEN << >>
    ELSE << Head(ws) \div 256, Head(ws) % 256 >> \o WordBytes(Tail(ws))

\* an object file: the big-endian origin followed by the big-endian words
ObjFile(origin, ws) == WordBytes(<< origin >> \o ws)
\* the part of the state one loop iteration works on
Machine == [mem |-> mem, reg |-> reg, pc |-> pc, buffer |-> buffer,
            input_index |-> input_index]

PSR(s) == Read(s.mem, OS_PSR)

\* --------------------------------------------------------------- helpers
\* static void interrupt(memory, registers, &pc, code)
interrupt(s, code) ==
    LET s1 == [s EXCEPT !.pc = Read(s.mem, 256 + code)]
    IN IF UserBit(PSR(s1))
       THEN LET m1 == Write(s1.mem, OS_USP, s1.reg[6])
                r1 == [s1.reg EXCEPT ![6] = Read(m1, OS_SSP)]
                m2 == Write(m1, OS_PSR, BitAnd(Read(m1, OS_PSR), 65535 - Bit15))
            IN [s1 EXCEPT !.mem = m2, !.reg = r1]
       ELSE s1

\* mutant of check_user_address: the user range starts one cell later
check_user_address_From3001(psr, address) ==
    IF ~UserBit(psr) THEN FALSE
    ELSE address <= 12288 \/ address >= 65024

\* static int check_user_address(psr, address)
check_user_address(psr, address) ==
    IF ~UserBit(psr) THEN FALSE
    ELSE address < 12288 \/ address >= 65024

\* mutant of update_cond_code: the old condition codes are not cleared
update_cond_code_NoClear(value, m) ==
    LET p0 == Read(m, OS_PSR)
        p1 == IF value < 0 THEN BitOr(p0, FLAG_N) ELSE p0
        p2 == IF value = 0 THEN BitOr(p1, FLAG_Z) ELSE p1
        p3 == IF value > 0 THEN BitOr(p2, FLAG_P) ELSE p2
    IN Write(m, OS_PSR, p3)

\* static void update_cond_code(int16_t value, memory); value is Int16 of a word
update_cond_code(value, m) ==
    LET p0 == BitAnd(Read(m, OS_PSR), 65535 - 7)
        p1 == IF value < 0 THEN BitOr(p0, FLAG_N) ELSE p0
        p2 == IF value = 0 THEN BitOr(p1, FLAG_Z) ELSE p1
        p3 == IF value > 0 THEN BitOr(p2, FLAG_P) ELSE p2
    IN Write(m, OS_PSR, p3)

\* instruction fields
Opcode(ir) == (ir \div 4096) % 16
DR(ir) == (ir \div 512) % 8      \* (instr & (0b111 << 9)) >> 9
SR1(ir) == (ir \div 64) % 8      \* (instr & (0b111 << 6)) >> 6

\* registers[dr] = v; update_cond_code(registers[dr], memory)
SetReg(s, dr, v) ==
    CHOOSE t \in { [z EXCEPT !.reg = [z.reg EXCEPT ![dr] = w],
                             !.mem = update_cond_code(Int16(w), z.mem)]
                   : z \in {s}, w \in {W(v)} } : TRUE

\* the values a read through the pointer memory + a can yield
WildWords == {0, RTI, TRAP(37)}
PtrVals(m, a) == IF InBounds(a) THEN {Read(m, a)} ELSE WildWords

\* a char of input_buffer assigned to a uint16_t cell: char is signed in
\* this build, so the bytes 0x80 .. 0xff arrive as 0xff80 .. 0xffff
CharToWord(c) == IF c >= 128 THEN W(c - 256) ELSE c

\* ------------------------------------------------------- one iteration
\* pc++ and the refresh of KBSR / KBDR that follow the fetch
Refresh(s) ==
    LET avail == s.input_index < Len(input_buffer)
        m1 == Write(s.mem, OS_KBSR, IF avail THEN Bit15 ELSE 0)
        m2 == IF Read(m1, OS_KBSR) # 0
              THEN Write(m1, OS_KBDR,
                         CharToWord(input_buffer[s.input_index + 1]))
              ELSE m1
    IN [s EXCEPT !.pc = s.pc + 1, !.mem = m2]

Fetched == Refresh(Machine)

\* mutant of Running: the loop head does not test the clock
RunningAnyClock == ~crashed /\ at = "run"

\* while (memory[OS_MCR] & (1u << 15)), reached outside the debug_cmd loop
Running == ~crashed /\ at = "run" /\ UserBit(Read(mem, OS_MCR))

\* &pc[sext9(instr & 0b111111111)] after pc++
PcRel(ir) == pc + 1 + sext9(ir % 512)

\* the iteration dereferences this many pointers outside the allocation
WildReads(ir) ==
    (IF InBounds(pc) THEN 0 ELSE 1)
    + (IF Opcode(ir) \in {2, 10, 11} /\ ~InBounds(PcRel(ir)) THEN 1 ELSE 0)

\* Bookkeeping for the TRAP / RTI pairing: a TRAP records the PSR, R6 and
\* SSP it found, its return address, the R6 it left, the input cursor, the
\* length of the output buffer, R0 and all registers; an RTI executed in
\* supervisor mode returns from the innermost recorded TRAP; an iteration
\* that changes the privilege bit marks every TRAP still open.
NoFrame == [open |-> FALSE]

NewFrame(s0, s) ==
    [open |-> TRUE, psr |-> PSR(s0), r6 |-> s0.reg[6],
     ssp |-> Read(s0.mem, OS_SSP), ret |-> W(s0.pc), sp |-> s.reg[6],
     idx |-> s0.input_index, out |-> Len(s0.buffer), r0 |-> s0.reg[0],
     regs |-> s0.reg, modechange |-> FALSE]

MarkFrames(fs, s0, s) ==
    IF UserBit(PSR(s0)) = UserBit(PSR(s)) THEN fs
    ELSE [i \in DOMAIN fs |-> [fs[i] EXCEPT !.modechange = TRUE]]

FramesAfter(ir, s0, s) ==
    CASE Opcode(ir) = 15 -> Append(MarkFrames(frames, s0, s), NewFrame(s0, s))
      [] Opcode(ir) = 8 /\ ~UserBit(PSR(s0)) /\ frames # << >> ->
            MarkFrames(SubSeq(frames, 1, Len(frames) - 1), s0, s)
      [] OTHER -> MarkFrames(frames, s0, s)

PoppedAfter(ir, s0) ==
    IF Opcode(ir) = 8 /\ ~UserBit(PSR(s0)) /\ frames # << >>
    THEN frames[Len(frames)]
    ELSE NoFrame

\* ddrsize after an iteration that took the buffer from ct0 to ct bytes:
\* if (ddrct >= ddrsize-1) ddrsize += 0x100
DdrsizeAfter(ct0, ct, size) ==
    IF ct > ct0 /\ ct >= size - 1 THEN size + 256 ELSE size

\* what an allocated byte of buffer no statement has written holds: calloc
\* zeroes the first 0x100 bytes, realloc leaves the bytes it adds as the
\* heap had them
Unwritten(i) == IF i < 256 THEN {0} ELSE {0, 90}

\* buffer[ddrct] after the iteration: growth stores 0 there, an append
\* without growth leaves the byte as it was
TerminatorAfter(ct0, ct, size, t) ==
    IF ct = ct0 THEN {t}
    ELSE IF ct >= size - 1 THEN {0}
    ELSE Unwritten(ct)

\* mutant of BreakCheck: only the automatic breakpoint stops the run
BreakCheck_FirstOnly(ctx, at_pc) ==
    LET c1 == IF at_pc = ctx.next_bp THEN [ctx EXCEPT !.next_bp = -1] ELSE ctx
    IN IF c1.breakpoint_size > 0 /\ c1.breakpoints[0] = at_pc
       THEN [c1 EXCEPT !.cont = 0]
       ELSE c1

\* the end of an iteration under --debug: next_bp is reached, a breakpoint
\* is hit
BreakCheck(ctx, at_pc) ==
    LET c1 == IF at_pc = ctx.next_bp THEN [ctx EXCEPT !.next_bp = -1] ELSE ctx
    IN IF \E i \in 0 .. Min(c1.breakpoint_size, BREAKPOINT_MAX) - 1 :
              c1.breakpoints[i] = at_pc
       THEN [c1 EXCEPT !.cont = 0]
       ELSE c1

\* debug && !debug_ctx.cont && debug_ctx.next_bp == -1
Prompting(ctx) == ctx.cont = 0 /\ ctx.next_bp = -1

\* the state after the iteration that executed ir and left the machine as s
Commit(ir, s) ==
    /\ Len(s.buffer) <= MaxOut
    /\ wild + WildReads(ir) <= MaxWild
    /\ Len(FramesAfter(ir, Fetched, s)) <= MaxFrames
    /\ frames' = FramesAfter(ir, Fetched, s)
    /\ popped' = PoppedAfter(ir, Fetched)
    /\ mem' = s.mem
    /\ reg' = s.reg
    /\ pc' = s.pc
    /\ buffer' = s.buffer
    /\ input_index' = s.input_index
    /\ wild' = wild + WildReads(ir)
    /\ instr' = ir
    /\ pre' = Machine
    /\ ddrsize' = DdrsizeAfter(Len(buffer), Len(s.buffer), ddrsize)
    /\ terminator' \in
           TerminatorAfter(Len(buffer), Len(s.buffer), ddrsize, terminator)
    /\ \E ctx \in {IF debug THEN BreakCheck(debug_ctx, s.pc) ELSE debug_ctx} :
          /\ debug_ctx' = ctx
          /\ at' = IF debug /\ Prompting(ctx) THEN "prompt" ELSE "run"
    /\ UNCHANGED << image, input_buffer, crashed, loaded, cmdline, debug,
                    stdin, call >>

\* case 0b0001 / 0b0101: the second operand
Operand2(ir, s) ==
    IF Bit(ir, 5) = 1 THEN W(sext5(ir % 32)) ELSE s.reg[ir % 8]

DoADD(ir, s) == SetReg(s, DR(ir), s.reg[SR1(ir)] + Operand2(ir, s))

DoAND(ir, s) == SetReg(s, DR(ir), BitAnd(s.reg[SR1(ir)], Operand2(ir, s)))

DoNOT(ir, s) == SetReg(s, DR(ir), BitNot(s.reg[SR1(ir)]))

\* mutant of DoTRAP: the return PC is pushed before the PSR
DoTRAP_PcFirst(ir, s) ==
    LET temp == PSR(s)
        s1 == IF UserBit(temp)
              THEN LET m1 == Write(s.mem, OS_USP, s.reg[6])
                       r1 == [s.reg EXCEPT ![6] = Read(m1, OS_SSP)]
                   IN [s EXCEPT !.reg = r1,
                                !.mem = Write(m1, OS_PSR,
                                     BitAnd(Read(m1, OS_PSR), 65535 - Bit15))]
              ELSE s
        sp1 == W(s1.reg[6] - 1)
        m2 == Write(s1.mem, sp1, W(s1.pc))
        sp2 == W(sp1 - 1)
        m3 == Write(m2, sp2, temp)
    IN [s1 EXCEPT !.reg = [s1.reg EXCEPT ![6] = sp2],
                  !.mem = m3,
                  !.pc = Read(m3, ir % 256)]

\* case 0b1111
DoTRAP(ir, s) ==
    LET temp == PSR(s)
        s1 == IF UserBit(temp)
              THEN LET m1 == Write(s.mem, OS_USP, s.reg[6])
                       r1 == [s.reg EXCEPT ![6] = Read(m1, OS_SSP)]
                   IN [s EXCEPT !.reg = r1,
                                !.mem = Write(m1, OS_PSR,
                                     BitAnd(Read(m1, OS_PSR), 65535 - Bit15))]
              ELSE s
        sp1 == W(s1.reg[6] - 1)
        m2 == Write(s1.mem, sp1, temp)
        sp2 == W(sp1 - 1)
        m3 == Write(m2, sp2, W(s1.pc))
    IN [s1 EXCEPT !.reg = [s1.reg EXCEPT ![6] = sp2],
                  !.mem = m3,
                  !.pc = Read(m3, ir % 256)]

DoLEA(ir, s) == SetReg(s, DR(ir), s.pc + sext9(ir % 512))

DoJMP(ir, s) == [s EXCEPT !.pc = Int16(s.reg[SR1(ir)])]

\* mutant of DoBR: the branch is taken whatever the condition codes are
DoBR_Always(ir, s) == [s EXCEPT !.pc = s.pc + sext9(ir % 512)]

DoBR(ir, s) ==
    IF BitAnd(DR(ir), PSR(s) % 8) # 0
    THEN [s EXCEPT !.pc = s.pc + sext9(ir % 512)]
    ELSE s

DoJSR(ir, s) ==
    LET s1 == [s EXCEPT !.reg = [s.reg EXCEPT ![7] = W(s.pc)]]
    IN IF Bit(ir, 11) = 1
       THEN [s1 EXCEPT !.pc = s1.pc + sext11(ir % 2048)]
       ELSE [s1 EXCEPT !.pc = s1.pc + Int16(s1.reg[SR1(ir)])]

\* *a = v for a pointer a: outside the allocation the write has no effect on
\* the modelled state (or crashes, see Segfault)
StorePtr(m, a, v) == IF InBounds(a) THEN Write(m, a, v) ELSE m

DoST(ir, s) ==
    LET a == s.pc + sext9(ir % 512)
        s1 == IF check_user_address(PSR(s), W(a)) THEN interrupt(s, 2) ELSE s
    IN [s1 EXCEPT !.mem = StorePtr(s1.mem, a, s1.reg[DR(ir)])]

\* mutant of Emit: the whole word is appended
Emit_WholeWord(buf, v) == Append(buf, v)

\* buffer[ddrct++] = memory[OS_DDR], a char
Emit(buf, v) == Append(buf, v % 256)

\* address is the word read through a
DoSTI(ir, s, address) ==
    LET a == s.pc + sext9(ir % 512)
        s1 == IF check_user_address(PSR(s), W(a)) THEN interrupt(s, 2) ELSE s
    IN IF check_user_address(PSR(s1), address)
       THEN interrupt(s1, 2)
       ELSE LET m1 == Write(s1.mem, address, s1.reg[DR(ir)])
            IN [s1 EXCEPT !.mem = m1,
                          !.buffer = IF address = OS_DDR /\ Read(m1, OS_DDR) # 0
                                     THEN Emit(s1.buffer, Read(m1, OS_DDR))
                                     ELSE s1.buffer]

DoSTR(ir, s) ==
    LET address == W(s.reg[SR1(ir)] + W(sext6(ir % 64)))
    IN IF check_user_address(PSR(s), address)
       THEN interrupt(s, 2)
       ELSE [s EXCEPT !.mem = Write(s.mem, address, s.reg[DR(ir)])]

\* registers[dr] = *a is read after interrupt(); w stands for the word an
\* out-of-allocation a yields
DoLD(ir, s, w) ==
    LET a == s.pc + sext9(ir % 512)
        s1 == IF check_user_address(PSR(s), W(a)) THEN interrupt(s, 2) ELSE s
    IN SetReg(s1, DR(ir), IF InBounds(a) THEN Read(s1.mem, a) ELSE w)

DoLDI(ir, s, address) ==
    LET a == s.pc + sext9(ir % 512)
        s1 == IF check_user_address(PSR(s), W(a)) THEN interrupt(s, 2) ELSE s
    IN IF check_user_address(PSR(s1), address)
       THEN interrupt(s1, 2)
       ELSE LET s2 == SetReg(s1, DR(ir), Read(s1.mem, address))
            IN  IF address = OS_KBDR
                THEN [s2 EXCEPT !.input_index = s1.input_index + 1]
                ELSE s2

DoLDR(ir, s) ==
    LET address == W(s.reg[SR1(ir)] + W(sext6(ir % 64)))
    IN IF check_user_address(PSR(s), address)
       THEN interrupt(s, 2)
       ELSE SetReg(s, DR(ir), Read(s.mem, address))

\* mutant of DoRTI: only the return PC is taken off the stack, the PSR word
\* is read but left on it
DoRTI_PopsOneWord(ir, s) ==
    IF ~UserBit(PSR(s))
    THEN LET newpc == Read(s.mem, s.reg[6])
             sp1 == W(s.reg[6] + 1)
             m1 == Write(s.mem, OS_PSR, Read(s.mem, sp1))
         IN IF UserBit(Read(m1, OS_PSR))
            THEN [s EXCEPT !.pc = newpc,
                           !.mem = Write(m1, OS_SSP, sp1),
                           !.reg = [s.reg EXCEPT ![6] = Read(m1, OS_USP)]]
            ELSE [s EXCEPT !.pc = newpc, !.mem = m1,
                           !.reg = [s.reg EXCEPT ![6] = sp1]]
    ELSE interrupt(s, 0)

\* mutant of DoRTI: the privilege bit is not examined, RTI always pops
DoRTI_NoPrivilegeCheck(ir, s) ==
    LET newpc == Read(s.mem, s.reg[6])
        sp1 == W(s.reg[6] + 1)
        m1 == Write(s.mem, OS_PSR, Read(s.mem, sp1))
        sp2 == W(sp1 + 1)
    IN IF UserBit(Read(m1, OS_PSR))
       THEN [s EXCEPT !.pc = newpc,
                      !.mem = Write(m1, OS_SSP, sp2),
                      !.reg = [s.reg EXCEPT ![6] = Read(m1, OS_USP)]]
       ELSE [s EXCEPT !.pc = newpc, !.mem = m1,
                      !.reg = [s.reg EXCEPT ![6] = sp2]]

\* case 0b1000
DoRTI(ir, s) ==
    IF ~UserBit(PSR(s))
    THEN LET newpc == Read(s.mem, s.reg[6])
             sp1 == W(s.reg[6] + 1)
             m1 == Write(s.mem, OS_PSR, Read(s.mem, sp1))
             sp2 == W(sp1 + 1)
         IN IF UserBit(Read(m1, OS_PSR))
            THEN [s EXCEPT !.pc = newpc,
                           !.mem = Write(m1, OS_SSP, sp2),
                           !.reg = [s.reg EXCEPT ![6] = Read(m1, OS_USP)]]
            ELSE [s EXCEPT !.pc = newpc, !.mem = m1,
                           !.reg = [s.reg EXCEPT ![6] = sp2]]
    ELSE interrupt(s, 0)

\* opcode 1101 raising the privilege exception instead
DoReserved_AsPrivilege(ir, s) == interrupt(s, 0)

\* case 0b1101 without LC3_EXTENDED
DoReserved(ir, s) == interrupt(s, 1)
\* ------------------------------------------------------- the runs checked
\* A run is fixed by its command line: the object files, --randomize (the
\* initial registers), --input= and --memory=.
ZeroRegisters == [i \in 0 .. 7 |-> 0]

\* registers as --randomize may leave them
SeedRegisters ==
    [i \in 0 .. 7 |->
        CASE i = 0 -> 4660       \* 0x1234
          [] i = 1 -> 65535      \* 0xFFFF
          [] i = 2 -> 1
          [] i = 3 -> 32768      \* 0x8000
          [] i = 4 -> 65532      \* OS_PSR
          [] i = 5 -> 12287      \* 0x2FFF
          [] i = 6 -> 16384      \* 0x4000
          [] i = 7 -> 12290]     \* 0x3002

UserOrigin == 12288   \* 0x3000, where the test program is loaded

\* the words that follow the two instructions of a test program, at
\* 0x3002 .. 0x3009: HALT, three pointers (in range, below the user range,
\* DDR), a negative word, and the string "hi"
TestData == << TRAP(37), 12294, 12287, OS_DDR, 32833, 104, 105, 0 >>

\* encodings the source has no macro for
ST(src, offset9) == 12288 + (src % 8) * 512 + (offset9 % 512)
NOT(dst, src) == 36864 + (dst % 8) * 512 + (src % 8) * 64 + 63
JSR(offset11) == 18432 + (offset11 % 2048)
JSRR(base) == 16384 + (base % 8) * 64
RESERVED == 53248     \* opcode 1101

\* instructions under test (at 0x3000, so pc-relative offset 5 is 0x3006)
TestInstrs ==
    { ADDR(1, 1, 2), ADDIMM(2, 1, -5), ADDIMM(3, 3, 0),
      ANDR(1, 1, 3), ANDIMM(3, 3, 0),
      NOT(0, 0), NOT(2, 5),
      LEA(0, 6), LEA(1, -2),
      LD(1, 5), LD(1, -3),
      LDI(1, 2), LDI(1, 3), LDI(1, 4), LDI(1, -3),
      LDR(1, 0, 6), LDR(1, 5, 0), LDR(1, 5, 1),
      ST(1, 5), ST(1, -3), ST(6, -3),
      STI(1, 2), STI(1, 3), STI(1, 4),
      STR(1, 0, 6), STR(1, 5, 0), STR(1, 5, 1), STR(1, 4, 0),
      BR(0, 1), BR(7, 1), BR(2, 1), BR(5, 1),
      JMP(7),
      JSR(1), JSRR(2),
      TRAP(32), TRAP(33), TRAP(34), TRAP(35), TRAP(36), TRAP(37), TRAP(0),
      RTI, RESERVED }

\* instructions under test that run in user mode only
UserOnlyInstrs == { LD(6, -3), STI(1, -3), JMP(0), JMP(3) }

\* a test program: the instruction under test, then HALT or RTI
TestProgram(i1, i2) == << i1, i2 >> \o TestData

NoPreset == << >>

\* the instruction under test runs in user mode, as the main program
UserRuns ==
    { [files |-> << ObjFile(UserOrigin, TestProgram(i, TRAP(37))) >>,
       registers |-> r, input |-> << 65, 66 >>, memory_set |-> NoPreset] :
        i \in TestInstrs \cup UserOnlyInstrs,
        r \in {ZeroRegisters, SeedRegisters} }

\* the instruction under test runs in supervisor mode, as the handler of
\* trap 0x30, which an earlier object file installs; the main program at
\* 0x3010 is TRAP x30; HALT
SupervisorRuns ==
    { [files |-> << ObjFile(48, << UserOrigin >>),
                    ObjFile(UserOrigin, TestProgram(i, RTI)),
                    ObjFile(12304, << TRAP(48), TRAP(37) >>) >>,
       registers |-> r, input |-> << 65, 66 >>, memory_set |-> NoPreset] :
        i \in TestInstrs, r \in {ZeroRegisters, SeedRegisters} }

\* the handler of trap 0x30 returns to user code at 0x7FFF through a frame
\* it builds at 0xFFFC (the word at 0xFFFD comes from --memory=fffd,8002),
\* so that RTI leaves SSP = 0xFFFE; the user code there is TRAP x31, whose
\* handler at 0x3006 is TRAP x25
StackOnPsrRun ==
    [files |-> << ObjFile(48, << UserOrigin, UserOrigin + 6 >>),
                  ObjFile(UserOrigin, << LD(6, 3), LD(1, 3), STR(1, 6, 0), RTI,
                                         OS_PSR, 32767, TRAP(37) >>),
                  ObjFile(32767, << TRAP(49) >>),
                  ObjFile(12304, << TRAP(48) >>) >>,
     registers |-> ZeroRegisters, input |-> << 65, 66 >>,
     memory_set |-> << << 65533, 32770 >> >>]

\* scenario 5 of the keyboard tests: two GETC and HALT, with --input of two
\* bytes, the second one above 0x7f
GetcRun ==
    [files |-> << ObjFile(UserOrigin, << TRAP(32), TRAP(32), TRAP(37) >>) >>,
     registers |-> ZeroRegisters, input |-> << 65, 200 >>,
     memory_set |-> NoPreset]

\* LEA R0,#1; TRAP x22; HALT; 'h', 'i', 0 at 0x3000
PutsProgram == << LEA(0, 1), TRAP(34), TRAP(37), 104, 105, 0 >>

PutsRun ==
    [files |-> << ObjFile(UserOrigin, PutsProgram) >>,
     registers |-> ZeroRegisters, input |-> << 65, 66 >>,
     memory_set |-> NoPreset]

\* the handler of trap 0x30 loads R2 with the address of KBDR, reads KBDR
\* with LDR and writes the word read to DDR with STR: R2 = 0xFE02,
\* R1 = memory[R2], memory[R2 + 4] = R1
MmioRun ==
    [files |-> << ObjFile(48, << UserOrigin >>),
                  ObjFile(UserOrigin, << LD(2, 3), LDR(1, 2, 0), STR(1, 2, 4),
                                         RTI, OS_KBDR >>),
                  ObjFile(12304, << TRAP(48), TRAP(37) >>) >>,
     registers |-> ZeroRegisters, input |-> << 65, 66 >>,
     memory_set |-> NoPreset]

\* the handler of trap 0x30 is the single word ST R1,#0 at 0xFDFF: it
\* stores R1 = 0 to KBSR and the next fetch is from KBSR itself
FetchKbsrRun ==
    [files |-> << ObjFile(48, << OS_KBSR - 1 >>),
                  ObjFile(OS_KBSR - 1, << ST(1, 0) >>),
                  ObjFile(12304, << TRAP(48), TRAP(37) >>) >>,
     registers |-> ZeroRegisters, input |-> << 65, 66 >>,
     memory_set |-> NoPreset]

\* the handler of trap 0x30 lies at 0x8000: it loads R6 with 0xFFFE and
\* executes TRAP x31 in supervisor mode, so that the second push of that
\* TRAP lands on the PSR cell; the handler of trap 0x31 at 0x3000 is HALT
SupervisorStackOnPsrRun ==
    [files |-> << ObjFile(48, << 32768, UserOrigin >>),
                  ObjFile(32768, << LD(6, 1), TRAP(49), 65534 >>),
                  ObjFile(UserOrigin, << TRAP(37) >>),
                  ObjFile(12304, << TRAP(48) >>) >>,
     registers |-> ZeroRegisters, input |-> << 65, 66 >>,
     memory_set |-> NoPreset]

\* a user program that reads the last cell of the user range, 0xFDFF, and
\* then the first cell above it, 0xFE00 (KBSR), both through R5 = 0xFDFF
UserRangeEndRun ==
    [files |-> << ObjFile(UserOrigin, << LD(5, 3), LDR(1, 5, 0), LDR(1, 5, 1),
                                         TRAP(37), OS_KBSR - 1 >>) >>,
     registers |-> ZeroRegisters, input |-> << 65, 66 >>,
     memory_set |-> NoPreset]

\* the handler of trap 0x30 stores R1 = 0 to DSR and returns; the main
\* program then calls OUT, whose polling loop reads DSR
DsrClearedRun ==
    [files |-> << ObjFile(48, << UserOrigin >>),
                  ObjFile(UserOrigin, << LD(2, 3), STR(1, 2, 0), RTI, 0,
                                         OS_DSR >>),
                  ObjFile(12304, << TRAP(48), TRAP(33), TRAP(37) >>) >>,
     registers |-> ZeroRegisters, input |-> << 65, 66 >>,
     memory_set |-> NoPreset]

\* the five service traps called in turn with seeded registers, then a
\* GETC with the two input bytes consumed; the string is one packed word
ServiceProgram ==
    << LEA(0, 7), TRAP(34), TRAP(36), TRAP(33), TRAP(32), TRAP(35),
       TRAP(32), TRAP(37), 577, 0 >>

ServiceRun ==
    [files |-> << ObjFile(UserOrigin, ServiceProgram) >>,
     registers |-> SeedRegisters, input |-> << 65, 66 >>,
     memory_set |-> NoPreset]

Scenarios ==
    UserRuns \cup SupervisorRuns
    \cup {StackOnPsrRun, GetcRun, PutsRun, MmioRun, FetchKbsrRun,
          SupervisorStackOnPsrRun, UserRangeEndRun, DsrClearedRun,
          ServiceRun}
\* ---------------------------------------------------------------- start
\* memory[memory_set[0][i]] = memory_set[1][i] for the --memory= pairs
RECURSIVE Preset(_, _)
Preset(m, pairs) ==
    IF pairs = << >> THEN m
    ELSE Preset(WriteIn(OSProgram, m, Head(pairs)[1], Head(pairs)[2]),
                Tail(pairs))

\* memory when the run loop is entered: the OS image, the object files (the
\* last one is loaded a second time and gives the user PC), MCR, DSR, DDR
Boot(sc) ==
    LET last == sc.files[Len(sc.files)]
        m1 == LoadBin(LoadAll(EmptyMem, sc.files), last)
        m2 == WriteIn(OSProgram, m1, USER_PC, LoadBase(last))
        m3 == WriteIn(OSProgram, m2, OS_MCR,
                      BitOr(ReadIn(OSProgram, m2, OS_MCR), Bit15))
        m4 == WriteIn(OSProgram, m3, OS_DSR,
                      BitOr(ReadIn(OSProgram, m3, OS_DSR), Bit15))
        m5 == WriteIn(OSProgram, m4, OS_DDR, 0)
    IN Preset(m5, sc.memory_set)

\* the command line is the scenario's and main has processed it
NoCmdLine == [argv |-> << >>, status |-> "running"]

\* no object file is being loaded on its own
NoLoad ==
    [done |-> FALSE, origin |-> 0, words |-> << >>, odd |-> << >>,
     base |-> -1]

Init ==
    \E sc \in Scenarios :
        /\ mem = Boot(sc)
        /\ image = OSProgram
        /\ reg = sc.registers
        /\ pc = OS_START
        /\ buffer = << >>
        /\ input_index = 0
        /\ input_buffer = sc.input
        /\ crashed = FALSE
        /\ wild = 0
        /\ instr = -1
        /\ frames = << >>
        /\ popped = NoFrame
        /\ loaded = NoLoad
        /\ cmdline = NoCmdLine
        /\ NoDebug
        /\ pre = [mem |-> Boot(sc), reg |-> sc.registers, pc |-> OS_START,
                  buffer |-> << >>, input_index |-> 0]

\* ------------------------------------------------------------- actions
\* one action per case of the switch, each a whole loop iteration
ExecADD ==
    /\ Running
    /\ \E ir \in PtrVals(mem, pc) :
          /\ Opcode(ir) = 1
          /\ \E s \in {DoADD(ir, Fetched)} : Commit(ir, s)

ExecAND ==
    /\ Running
    /\ \E ir \in PtrVals(mem, pc) :
          /\ Opcode(ir) = 5
          /\ \E s \in {DoAND(ir, Fetched)} : Commit(ir, s)

ExecNOT ==
    /\ Running
    /\ \E ir \in PtrVals(mem, pc) :
          /\ Opcode(ir) = 9
          /\ \E s \in {DoNOT(ir, Fetched)} : Commit(ir, s)

ExecTRAP ==
    /\ Running
    /\ \E ir \in PtrVals(mem, pc) :
          /\ Opcode(ir) = 15
          /\ \E s \in {DoTRAP(ir, Fetched)} : Commit(ir, s)

ExecLEA ==
    /\ Running
    /\ \E ir \in PtrVals(mem, pc) :
          /\ Opcode(ir) = 14
          /\ \E s \in {DoLEA(ir, Fetched)} : Commit(ir, s)

ExecJMP ==
    /\ Running
    /\ \E ir \in PtrVals(mem, pc) :
          /\ Opcode(ir) = 12
          /\ \E s \in {DoJMP(ir, Fetched)} : Commit(ir, s)

ExecBR ==
    /\ Running
    /\ \E ir \in PtrVals(mem, pc) :
          /\ Opcode(ir) = 0
          /\ \E s \in {DoBR(ir, Fetched)} : Commit(ir, s)

ExecJSR ==
    /\ Running
    /\ \E ir \in PtrVals(mem, pc) :
          /\ Opcode(ir) = 4
          /\ \E s \in {DoJSR(ir, Fetched)} : Commit(ir, s)

ExecST ==
    /\ Running
    /\ \E ir \in PtrVals(mem, pc) :
          /\ Opcode(ir) = 3
          /\ \E s \in {DoST(ir, Fetched)} : Commit(ir, s)

ExecSTI ==
    /\ Running
    /\ \E ir \in PtrVals(mem, pc) :
          /\ Opcode(ir) = 11
          /\ \E address \in PtrVals(Fetched.mem, PcRel(ir)) :
                \E s \in {DoSTI(ir, Fetched, address)} : Commit(ir, s)

ExecSTR ==
    /\ Running
    /\ \E ir \in PtrVals(mem, pc) :
          /\ Opcode(ir) = 7
          /\ \E s \in {DoSTR(ir, Fetched)} : Commit(ir, s)

ExecLD ==
    /\ Running
    /\ \E ir \in PtrVals(mem, pc) :
          /\ Opcode(ir) = 2
          /\ \E w \in (IF InBounds(PcRel(ir)) THEN {0} ELSE WildWords) :
                \E s \in {DoLD(ir, Fetched, w)} : Commit(ir, s)

ExecLDI ==
    /\ Running
    /\ \E ir \in PtrVals(mem, pc) :
          /\ Opcode(ir) = 10
          /\ \E address \in PtrVals(Fetched.mem, PcRel(ir)) :
                \E s \in {DoLDI(ir, Fetched, address)} : Commit(ir, s)

ExecLDR ==
    /\ Running
    /\ \E ir \in PtrVals(mem, pc) :
          /\ Opcode(ir) = 6
          /\ \E s \in {DoLDR(ir, Fetched)} : Commit(ir, s)

ExecRTI ==
    /\ Running
    /\ \E ir \in PtrVals(mem, pc) :
          /\ Opcode(ir) = 8
          /\ \E s \in {DoRTI(ir, Fetched)} : Commit(ir, s)

ExecReserved ==
    /\ Running
    /\ \E ir \in PtrVals(mem, pc) :
          /\ Opcode(ir) = 13
          /\ \E s \in {DoReserved(ir, Fetched)} : Commit(ir, s)

\* the iteration dereferences a pointer outside the allocation (the fetch
\* through pc, or the pc-relative cell of LD / ST / LDI / STI) and the host
\* process is killed
Segfault ==
    /\ Running
    /\ \/ ~InBounds(pc)
       \/ /\ InBounds(pc)
          /\ Opcode(Read(mem, pc)) \in {2, 3, 10, 11}
          /\ ~InBounds(PcRel(Read(mem, pc)))
    /\ crashed' = TRUE
    /\ UNCHANGED << image, mem, reg, pc, buffer, input_index, input_buffer,
                    wild, instr, pre, frames, popped, loaded,
                    cmdline, ddrsize, terminator, dbgvars, call >>

Next ==
    \/ ExecADD
    \/ ExecAND
    \/ ExecNOT
    \/ ExecTRAP
    \/ ExecLEA
    \/ ExecJMP
    \/ ExecBR
    \/ ExecJSR
    \/ ExecST
    \/ ExecSTI
    \/ ExecSTR
    \/ ExecLD
    \/ ExecLDI
    \/ ExecLDR
    \/ ExecRTI
    \/ ExecReserved
    \/ Segfault

Spec == Init /\ [][Next]_vars

\* ------------------------------------------------------------ the loader
\* parse_program_from_bin on its own: one object file, given by its origin,
\* its words and the odd byte it may end in, is loaded into the memory that
\* calloc and memcpy left.
MaxLoadLen == 3
LoadOrigins == {0, 1, UserOrigin, 65534, 65535}
LoadWordValues == {0, 4660, 65280}
\* the bytes a file may have after its last whole word: none, or one
OddBytes == {<< >>, << 171 >>}

RECURSIVE WordSeqs(_)
\* the sequences of 1 .. n words
WordSeqs(n) ==
    IF n = 0 THEN {}
    ELSE LET shorter == WordSeqs(n - 1)
         IN {<< w >> : w \in LoadWordValues}
            \cup shorter
            \cup {Append(ws, w) : ws \in shorter, w \in LoadWordValues}

LoaderInit ==
    /\ \E o \in LoadOrigins, ws \in WordSeqs(MaxLoadLen), t \in OddBytes :
          loaded = [done |-> FALSE, origin |-> o, words |-> ws, odd |-> t,
                    base |-> -1]
    /\ cmdline = NoCmdLine
    /\ NoDebug
    /\ mem = EmptyMem
    /\ image = OSProgram
    /\ reg = ZeroRegisters
    /\ pc = 0
    /\ buffer = << >>
    /\ input_index = 0
    /\ input_buffer = << >>
    /\ crashed = FALSE
    /\ wild = 0
    /\ instr = -1
    /\ frames = << >>
    /\ popped = NoFrame
    /\ pre = [mem |-> EmptyMem, reg |-> ZeroRegisters, pc |-> 0,
              buffer |-> << >>, input_index |-> 0]

\* pc = parse_program_from_bin(path, memory)
LoadFile ==
    /\ ~loaded.done
    /\ LET bytes == ObjFile(loaded.origin, loaded.words) \o loaded.odd
       IN /\ mem' \in LoadOutcomes(mem, bytes)
          /\ loaded' = [loaded EXCEPT !.done = TRUE, !.base = LoadBase(bytes)]
    /\ UNCHANGED << image, reg, pc, buffer, input_index, input_buffer,
                    crashed, wild, instr, pre, frames, popped, cmdline,
                    ddrsize, terminator, dbgvars, call >>

LoaderNext == LoadFile

LoaderSpec == LoaderInit /\ [][LoaderNext]_vars

\* the run loop never waits: an iteration that can run does run
FairSpec == Spec /\ WF_vars(Next)

\* ------------------------------------------------------ the command line
\* main from its entry: the arguments are processed, the files loaded and
\* the run loop entered, or main returns 1.
MaxArgs == 3

\* an argument: a flag (strstr(arg, "--") == arg) or the path of a
\* readable object file, given by its bytes
Flag(name) == [flag |-> name, file |-> << >>]
File(bytes) == [flag |-> "", file |-> bytes]
IsFlag(arg) == arg.flag # ""

\* a program at 0x3000 that uses every opcode but JMP and ends in opcode
\* 1101: R1 = 1, R2 = 1, R3 = ~1, R0 = 0x300E (the data cell), three stores
\* to the data cell, three loads from it, JSR to the next word, BR never
\* taken; the pointer cell at 0x300D holds 0x300E
ProgramA ==
    << ADDIMM(1, 1, 1), ANDR(2, 1, 1), NOT(3, 2), LEA(0, 10),
       ST(1, 9), STI(2, 7), STR(3, 0, 0),
       LD(4, 6), LDI(5, 4), LDR(2, 0, 0),
       JSR(0), BR(0, 0), RESERVED,
       12302, 0 >>

\* a program at 0x4000 that jumps through R3 = 0x8000
ProgramB == << LD(3, 1), JMP(3), 32768 >>

OriginA == UserOrigin
OriginB == 16384

CmdArgs ==
    { Flag("silent"), Flag("randomize"),
      File(ObjFile(OriginA, ProgramA)), File(ObjFile(OriginB, ProgramB)) }

RECURSIVE ArgSeqs(_)
\* the command lines of 1 .. n arguments
ArgSeqs(n) ==
    IF n = 0 THEN {}
    ELSE LET shorter == ArgSeqs(n - 1)
         IN {<< a >> : a \in CmdArgs}
            \cup shorter
            \cup {Append(as, a) : as \in shorter, a \in CmdArgs}

\* the positional arguments, in order
RECURSIVE Positional(_)
Positional(argv) ==
    IF argv = << >> THEN << >>
    ELSE IF IsFlag(Head(argv)) THEN Positional(Tail(argv))
         ELSE << Head(argv).file >> \o Positional(Tail(argv))

HasFlag(argv, name) == \E i \in 1 .. Len(argv) : argv[i].flag = name

\* what the command line asks for, as a scenario
CmdScenario(argv) ==
    [files |-> Positional(argv),
     registers |-> IF HasFlag(argv, "randomize") THEN SeedRegisters
                   ELSE ZeroRegisters,
     input |-> << >>, memory_set |-> NoPreset]

\* main has been entered: memory is calloc'ed and holds the OS image
CmdInit ==
    /\ \E argv \in ArgSeqs(MaxArgs) :
          cmdline = [argv |-> argv, status |-> "parsing"]
    /\ loaded = NoLoad
    /\ NoDebug
    /\ mem = EmptyMem
    /\ image = OSProgram
    /\ reg = ZeroRegisters
    /\ pc = 0
    /\ buffer = << >>
    /\ input_index = 0
    /\ input_buffer = << >>
    /\ crashed = FALSE
    /\ wild = 0
    /\ instr = -1
    /\ frames = << >>
    /\ popped = NoFrame
    /\ pre = [mem |-> EmptyMem, reg |-> ZeroRegisters, pc |-> 0,
              buffer |-> << >>, input_index |-> 0]

\* main up to the run loop.  The argument loop loads every positional
\* argument; then argv[argc-1] is opened as the main program, whatever it
\* is: fopen of a flag fails (no file has the name of a flag) and main
\* returns 1.
Start ==
    /\ cmdline.status = "parsing"
    /\ \E sc \in {CmdScenario(cmdline.argv)} :
          IF IsFlag(cmdline.argv[Len(cmdline.argv)])
          THEN /\ cmdline' = [cmdline EXCEPT !.status = "exit 1"]
               /\ UNCHANGED << mem, reg, pc, pre >>
          ELSE \E m \in {Boot(sc)} :
                  /\ cmdline' = [cmdline EXCEPT !.status = "running"]
                  /\ mem' = m
                  /\ reg' = sc.registers
                  /\ pc' = OS_START
                  /\ pre' = [mem |-> m, reg |-> sc.registers,
                             pc |-> OS_START, buffer |-> << >>,
                             input_index |-> 0]
    /\ UNCHANGED << image, buffer, input_index, input_buffer, crashed, wild,
                    instr, frames, popped, loaded, ddrsize, terminator,
                    dbgvars, call >>

CmdNext == Start \/ Next

CmdSpec == CmdInit /\ [][CmdNext]_vars
\* ------------------------------------------- sign extension on its own
\* the machine is not running: nothing is loaded, no instruction executes
Stopped ==
    /\ loaded = NoLoad
    /\ cmdline = NoCmdLine
    /\ mem = EmptyMem
    /\ image = OSProgram
    /\ reg = ZeroRegisters
    /\ pc = 0
    /\ buffer = << >>
    /\ input_index = 0
    /\ input_buffer = << >>
    /\ crashed = FALSE
    /\ wild = 0
    /\ instr = -1
    /\ frames = << >>
    /\ popped = NoFrame
    /\ pre = [mem |-> EmptyMem, reg |-> ZeroRegisters, pc |-> 0,
              buffer |-> << >>, input_index |-> 0]
    /\ ddrsize = 256
    /\ terminator = 0
    /\ debug = FALSE
    /\ debug_ctx = NoDebugger
    /\ stdin = NoStdin
    /\ at = "run"

\* the sign extension the case of ir's opcode calls, "" if it calls none:
\* ADD and AND in immediate mode, LDR and STR, the PC-relative cases, JSR
SextOf(ir) ==
    CASE Opcode(ir) \in {1, 5} /\ Bit(ir, 5) = 1 -> "sext5"
      [] Opcode(ir) \in {6, 7} -> "sext6"
      [] Opcode(ir) \in {0, 2, 3, 10, 11, 14} -> "sext9"
      [] Opcode(ir) = 4 /\ Bit(ir, 11) = 1 -> "sext11"
      [] OTHER -> ""

\* the width of the field the function extends
SextWidth(fn) ==
    CASE fn = "sext5" -> 5
      [] fn = "sext6" -> 6
      [] fn = "sext9" -> 9
      [] fn = "sext11" -> 11
      [] OTHER -> 0

\* the argument the case passes: instr & 0b11111 etc.
SextField(ir) == ir % Pow2(SextWidth(SextOf(ir)))

Sext(fn, input) ==
    CASE fn = "sext5" -> sext5(input)
      [] fn = "sext6" -> sext6(input)
      [] fn = "sext9" -> sext9(input)
      [] fn = "sext11" -> sext11(input)

\* every instruction word with a sign-extended field, by opcode and low 12
\* bits
SextInstrs ==
    { ir \in { op * 4096 + f : op \in {0, 1, 2, 3, 4, 5, 6, 7, 10, 11, 14},
                               f \in 0 .. 4095 } : SextOf(ir) # "" }

SextInit ==
    /\ Stopped
    /\ \E ir \in SextInstrs :
          call = [fn |-> SextOf(ir), ir |-> ir, input |-> SextField(ir),
                  result |-> 0, done |-> FALSE]

ApplySext ==
    /\ ~call.done
    /\ call' = [call EXCEPT !.result = Sext(call.fn, call.input),
                            !.done = TRUE]
    /\ UNCHANGED << image, mem, reg, pc, buffer, input_index, input_buffer,
                    crashed, wild, instr, pre, frames, popped, loaded,
                    cmdline, ddrsize, terminator, dbgvars >>

SextNext == ApplySext

SextSpec == SextInit /\ [][SextNext]_vars

\* ------------------------------------------------------------ debugger
\* one line of standard input as debug_cmd tokenises it; addr is what
\* sscanf("%x") reads
Cmd(name) == [cmd |-> name, addr |-> 0]
CmdAt(name, a) == [cmd |-> name, addr |-> a]

\* every opcode once: the straight line ends in HALT, the RTI and the
\* reserved word behind it are reached with goto
DebugProgram ==
    << ADDIMM(1, 1, 1), ANDIMM(2, 2, 0), NOT(3, 3), LEA(4, 12),
       LD(0, 11), LDR(5, 4, 1), LDI(5, 10), ST(1, 10),
       STR(1, 4, 2), STI(1, 7), JSR(1), BR(7, 1),
       JMP(7), TRAP(37), RTI, RESERVED,
       65, 12304, 0 >>

DebugRun ==
    [files |-> << ObjFile(UserOrigin, DebugProgram) >>,
     registers |-> ZeroRegisters, input |-> << >>,
     memory_set |-> NoPreset]

\* the lines typed at the prompt
DebugCmds ==
    {Cmd("step"), Cmd("continue"), Cmd("next"), Cmd("quit"),
     Cmd("break pop"), Cmd("break clear"), Cmd("break list")}
    \cup {CmdAt("goto", a) : a \in {0, UserOrigin + 3, UserOrigin + 15,
                                    UserOrigin + 16}}
    \cup {CmdAt("break add", a) : a \in {UserOrigin + 3, UserOrigin + 11}}
    \cup {CmdAt("break remove", a) : a \in {UserOrigin, UserOrigin + 3}}

\* break add of BREAKPOINT_MAX fresh addresses, one more than the array
\* has room for beside the automatic breakpoint
FillScript ==
    [i \in 1 .. BREAKPOINT_MAX |-> CmdAt("break add", 16384 + i)]
    \o << Cmd("break list"), Cmd("quit") >>

\* add, add again, remove, pop down to the empty list, clear, add, run on
ListScript ==
    << CmdAt("break add", UserOrigin + 3), CmdAt("break add", UserOrigin + 3),
       CmdAt("break add", UserOrigin + 11),
       CmdAt("break remove", UserOrigin + 3), Cmd("break pop"),
       Cmd("break pop"), Cmd("break pop"), Cmd("break clear"),
       CmdAt("break add", UserOrigin + 11), Cmd("continue"),
       Cmd("continue") >>

\* two breakpoints beyond the automatic one, continue from each, next over
\* the JSR at the second one
TourScript ==
    << CmdAt("break add", UserOrigin + 3),
       CmdAt("break add", UserOrigin + 10), Cmd("continue"),
       Cmd("continue"), Cmd("next"), Cmd("continue") >>

\* stdin: no line, one line, two lines, and the three longer scripts
DebugScripts ==
    {<< >>} \cup {<< a >> : a \in DebugCmds}
    \cup {<< a, b >> : a \in DebugCmds, b \in DebugCmds}
    \cup {FillScript, ListScript, TourScript}

\* 260 times OUT of 'A', then HALT: the output outgrows the 0x100 bytes
\* buffer is allocated with
PrintProgram ==
    << LD(1, 5), LD(0, 5), TRAP(33), ADDIMM(1, 1, -1), BR(1, -3), TRAP(37),
       260, 65 >>

PrintRun ==
    [files |-> << ObjFile(UserOrigin, PrintProgram) >>,
     registers |-> ZeroRegisters, input |-> << >>,
     memory_set |-> NoPreset]

\* the command lines, each with what is typed: DebugProgram under --debug,
\* PrintProgram with and without it
DebugStarts ==
    {[run |-> DebugRun, debug |-> TRUE, script |-> s] : s \in DebugScripts}
    \cup {[run |-> PrintRun, debug |-> TRUE, script |-> << Cmd("continue") >>],
          [run |-> PrintRun, debug |-> FALSE, script |-> << >>]}

\* if (debug) { next_bp = -1; cont = 1; breakpoint_size = 1;
\*              breakpoints[0] = memory[USER_PC]; }
DebugSetup(m) ==
    [cont |-> 1, next_bp |-> -1, breakpoint_size |-> 1,
     breakpoints |-> [i \in 0 .. BREAKPOINT_MAX - 1 |->
                         IF i = 0 THEN ReadIn(OSProgram, m, USER_PC) ELSE 0]]

DebugInit ==
    /\ \E st \in DebugStarts : \E m \in {Boot(st.run)} :
          /\ stdin = [script |-> st.script, read |-> 0]
          /\ mem = m
          /\ debug = st.debug
          /\ debug_ctx = IF st.debug THEN DebugSetup(m) ELSE NoDebugger
          /\ reg = st.run.registers
          /\ input_buffer = st.run.input
          /\ pre = [mem |-> m, reg |-> st.run.registers, pc |-> OS_START,
                    buffer |-> << >>, input_index |-> 0]
    /\ at = "run"
    /\ image = OSProgram
    /\ pc = OS_START
    /\ buffer = << >>
    /\ input_index = 0
    /\ crashed = FALSE
    /\ wild = 0
    /\ instr = -1
    /\ frames = << >>
    /\ popped = NoFrame
    /\ loaded = NoLoad
    /\ cmdline = NoCmdLine
    /\ ddrsize = 256
    /\ terminator = 0
    /\ call = NoCall

\* the index of addr among the breakpoints, -1 if it is not set
BreakpointIndex(ctx, addr) ==
    LET found == { i \in 0 .. Min(ctx.breakpoint_size, BREAKPOINT_MAX) - 1 :
                      ctx.breakpoints[i] = addr }
    IN IF found = {} THEN -1 ELSE CHOOSE i \in found : \A j \in found : i <= j

\* ctx->breakpoints[ctx->breakpoint_size++] = addr: with the array full the
\* store goes to breakpoints[67], which is where breakpoint_size lies, and
\* the order of the store and of the increment is not fixed: the count is
\* the address or one more than it was
BreakAdd(ctx, addr) ==
    IF BreakpointIndex(ctx, addr) # -1 THEN {ctx}
    ELSE IF ctx.breakpoint_size < BREAKPOINT_MAX
    THEN {[ctx EXCEPT !.breakpoints[ctx.breakpoint_size] = addr,
                      !.breakpoint_size = @ + 1]}
    ELSE {[ctx EXCEPT !.breakpoint_size = Int16(addr)],
          [ctx EXCEPT !.breakpoint_size = Int16(@ + 1)]}

\* memmove of the entries above i one place down, breakpoint_size--
BreakRemove(ctx, addr) ==
    LET i == BreakpointIndex(ctx, addr)
    IN IF i = -1 THEN ctx
       ELSE [ctx EXCEPT !.breakpoint_size = @ - 1,
                        !.breakpoints =
                            [j \in 0 .. BREAKPOINT_MAX - 1 |->
                                IF j >= i /\ j < ctx.breakpoint_size - 1
                                THEN ctx.breakpoints[j + 1]
                                ELSE ctx.breakpoints[j]]]

\* debug_ctx after the line c, read with *pc = w
CtxAfter(ctx, c, w) ==
    CASE c.cmd = "continue" -> {[ctx EXCEPT !.cont = 1]}
      [] c.cmd = "next" ->
            {IF Opcode(w) \in {4, 15} THEN [ctx EXCEPT !.next_bp = pc + 1]
             ELSE ctx}
      [] c.cmd = "break add" -> BreakAdd(ctx, c.addr % 65536)
      [] c.cmd = "break remove" -> {BreakRemove(ctx, c.addr % 65536)}
      [] c.cmd = "break pop" ->
            {IF ctx.breakpoint_size > 0
             THEN [ctx EXCEPT !.breakpoint_size = @ - 1] ELSE ctx}
      [] c.cmd = "break clear" -> {[ctx EXCEPT !.breakpoint_size = 0]}
      [] OTHER -> {ctx}

\* one call of debug_cmd: a line is read and obeyed; step, continue, next
\* and goto return 1 and the run loop goes on, quit leaves the program, the
\* other commands return 0 and the prompt comes again.  With no line left
\* getchar yields EOF for ever and debug_cmd never returns 1.
DebugCmd ==
    /\ at = "prompt"
    /\ stdin.read < Len(stdin.script)
    /\ \E c \in {stdin.script[stdin.read + 1]}, w \in PtrVals(mem, pc) :
          /\ stdin' = [stdin EXCEPT !.read = @ + 1]
          /\ debug_ctx' \in CtxAfter(debug_ctx, c, w)
          /\ pc' = IF c.cmd = "goto" THEN c.addr - 1 ELSE pc
          /\ at' = CASE c.cmd \in {"step", "continue", "next", "goto"} -> "run"
                     [] c.cmd = "quit" -> "exited"
                     [] OTHER -> "prompt"
    /\ UNCHANGED << image, mem, reg, buffer, input_index, input_buffer,
                    crashed, wild, instr, pre, frames, popped, loaded,
                    cmdline, ddrsize, terminator, debug, call >>

DebugNext == DebugCmd \/ Next

DebugSpec == DebugInit /\ [][DebugNext]_vars


\* =========================================================== properties
\* The last iteration fetched its instruction from inside the allocation:
\* instr is the word at pre.pc and Pre is the machine after pc++ and the
\* keyboard refresh, before the instruction acted.
Defined == instr # -1 /\ InBounds(pre.pc) /\ instr = Read(pre.mem, pre.pc)
Pre == Refresh(pre)
Now == Machine
PreUser == UserBit(PSR(pre))

\* an address outside the user range [0x3000, 0xFE00)
OutOfUserRange(a) == a < 12288 \/ a >= 65024

\* PC + offset9 as the pointer the code forms, and as a 16-bit address
PcRelPtr == Pre.pc + sext9(instr % 512)
PcRelAddr == W(PcRelPtr)
\* SR1 + offset6
BaseAddr == W(pre.reg[SR1(instr)] + sext6(instr % 64))
\* memory[PC + offset9], the final address of LDI and STI
IndirectAddr == Read(Pre.mem, PcRelAddr)

IsStore == Opcode(instr) \in {3, 7, 11}
IsLoad == Opcode(instr) \in {2, 6, 10}
UsesPcRel == Opcode(instr) \in {2, 3, 10, 11}

\* the address the store writes or the load reads
TargetAddr ==
    CASE Opcode(instr) \in {2, 3} -> PcRelAddr
      [] Opcode(instr) \in {6, 7} -> BaseAddr
      [] Opcode(instr) \in {10, 11} -> IndirectAddr

\* a user-mode load or store one of whose checked addresses is out of range
AccessFaults ==
    /\ Defined /\ PreUser /\ (IsLoad \/ IsStore)
    /\ UsesPcRel => InBounds(PcRelPtr)
    /\ \/ OutOfUserRange(TargetAddr)
       \/ Opcode(instr) \in {10, 11} /\ OutOfUserRange(PcRelAddr)

\* the access-violation handler has been entered
InAcvHandler == pc = Read(pre.mem, 258) /\ ~UserBit(PSR(Now))

ExactlyOneNZP(psr) == Bit(psr, 2) + Bit(psr, 1) + Bit(psr, 0) = 1

\* C1: a user-mode ST, STI or STR whose effective address is outside
\* [0x3000, 0xFE00) enters the access-violation handler (PC = memory[0x102],
\* supervisor mode) and leaves memory[A] as it was.  (A = PSR itself is left
\* out: entering the handler clears its bit 15.)
C1_UserStoreOutOfRangeWritesNothing ==
    (/\ Defined /\ PreUser /\ IsStore
     /\ UsesPcRel => InBounds(PcRelPtr)
     /\ OutOfUserRange(TargetAddr) /\ TargetAddr # OS_PSR)
    => /\ InAcvHandler
       /\ Read(mem, TargetAddr) = Read(Pre.mem, TargetAddr)

\* C2: a user-mode LDI or STI checks the pointer address A1 = PC + offset9
\* and the final address A2 = memory[A1]; if either is out of range the
\* access-violation handler is entered and the instruction loads nothing
\* into DR, stores nothing to memory[A2], appends nothing to the output
\* buffer and leaves the input cursor.  (DR = R6 is left out: entering the
\* handler switches R6 to the supervisor stack.)
C2_IndirectFaultSuppressesEffect ==
    (AccessFaults /\ Opcode(instr) \in {10, 11} /\ IndirectAddr # OS_PSR)
    => /\ InAcvHandler
       /\ Opcode(instr) = 10 /\ DR(instr) # 6
             => reg[DR(instr)] = pre.reg[DR(instr)]
       /\ Opcode(instr) = 11
             => Read(mem, IndirectAddr) = Read(Pre.mem, IndirectAddr)
       /\ buffer = pre.buffer
       /\ input_index = pre.input_index

\* C3: when a user-mode LD, LDI or LDR raises the access violation, the
\* destination register and the condition codes N/Z/P keep their values.
\* (DR = R6 is left out, as in C2.)
C3_FaultingLoadKeepsRegisterAndFlags ==
    (AccessFaults /\ IsLoad /\ DR(instr) # 6)
    => /\ reg[DR(instr)] = pre.reg[DR(instr)]
       /\ PSR(Now) % 8 = PSR(pre) % 8

\* the last iteration entered an exception: opcode 1101, RTI in user mode,
\* or a user-mode LDR / STR outside the user range
EnteredException ==
    /\ Defined
    /\ \/ Opcode(instr) = 13
       \/ Opcode(instr) = 8 /\ PreUser
       \/ Opcode(instr) \in {6, 7} /\ PreUser /\ OutOfUserRange(BaseAddr)

\* the supervisor stack pointer in effect when the last iteration began
SupervisorSP == IF PreUser THEN Read(pre.mem, OS_SSP) ELSE pre.reg[6]

\* C4: entering an exception pushes the old PSR and then the return PC on
\* the supervisor stack, as TRAP does: R6 is the supervisor stack pointer
\* minus 2, memory[R6] is the return PC and memory[R6+1] the old PSR.
C4_ExceptionEntryPushesPsrAndPc ==
    EnteredException
    => /\ reg[6] = W(SupervisorSP - 2)
       /\ Read(mem, reg[6]) = W(pre.pc + 1)
       /\ Read(mem, W(reg[6] + 1)) = PSR(pre)

\* what C5 promises of the state after a TRAP
TrapEntered ==
    /\ ~UserBit(PSR(Now))
    /\ Read(mem, OS_USP) = pre.reg[6]
    /\ reg[6] = W(Read(pre.mem, OS_SSP) - 2)
    /\ Read(mem, reg[6]) = W(pre.pc + 1)
    /\ Read(mem, W(reg[6] + 1)) = PSR(pre)
    /\ pc = Read(mem, instr % 256)

\* the two words a user-mode TRAP pushes are not written to the PSR cell
PushesMissPsr ==
    OS_PSR \notin {W(Read(pre.mem, OS_SSP) - 1), W(Read(pre.mem, OS_SSP) - 2)}

BalancedReturn ==
    /\ Defined /\ popped.open /\ ~popped.modechange
    /\ pre.reg[6] = popped.sp
    /\ Read(pre.mem, popped.sp) = popped.ret
    /\ Read(pre.mem, W(popped.sp + 1)) = popped.psr

\* C6: after the RTI of a balanced TRAP / RTI pair, PSR, R6 and SSP have
\* their values from before the TRAP and PC is the address after the TRAP,
\* for a TRAP issued in user mode and for a nested one issued in supervisor
\* mode.
C6_BalancedTrapRtiRestores ==
    BalancedReturn
    => /\ PSR(Now) = popped.psr
       /\ reg[6] = popped.r6
       /\ Read(mem, OS_SSP) = popped.ssp
       /\ pc = popped.ret

\* a user program is back from a service trap that wrote to the display
C6_Witness ==
    /\ BalancedReturn /\ UserBit(popped.psr)
    /\ buffer # << >> /\ frames = << >>
    /\ pc = popped.ret /\ reg[6] = popped.r6

\* C7: PSR bit 15 changes between two instruction boundaries only together
\* with the exchange of the stack pointers: to supervisor, USP gets R6 and
\* R6 comes from SSP; to user, SSP gets R6 and R6 comes from USP.
C7_PrivilegeBitFollowsStackExchange ==
    (Defined /\ UserBit(PSR(pre)) # UserBit(PSR(Now)))
    => IF PreUser
       THEN /\ Read(mem, OS_USP) = pre.reg[6]
            /\ reg[6] \in {Read(pre.mem, OS_SSP), W(Read(pre.mem, OS_SSP) - 2)}
       ELSE /\ Read(mem, OS_SSP) \in {pre.reg[6], W(pre.reg[6] + 2)}
            /\ reg[6] = Read(pre.mem, OS_USP)

\* C8: in every reachable state, the one before the first bootstrap
\* instruction included, exactly one of PSR bits N, Z, P is set.
C8_ExactlyOneConditionCode == ExactlyOneNZP(PSR(Now))

\* the last iteration wrote a general register and ran to completion
RegisterWriteCompleted ==
    /\ Defined
    /\ \/ Opcode(instr) \in {1, 5, 9, 14}
       \/ /\ IsLoad
          /\ UsesPcRel => InBounds(PcRelPtr)
          /\ ~AccessFaults

\* C9: after every completed ADD, AND, NOT, LD, LDI, LDR, LEA exactly one of
\* N/Z/P is set and it is the sign of the 16-bit value written, read as
\* two's complement; PSR bit 15 is as before.
C9_ConditionCodesMatchWrittenValue ==
    RegisterWriteCompleted
    => /\ ExactlyOneNZP(PSR(Now))
       /\ Int16(reg[DR(instr)]) < 0 => Bit(PSR(Now), 2) = 1
       /\ Int16(reg[DR(instr)]) = 0 => Bit(PSR(Now), 1) = 1
       /\ Int16(reg[DR(instr)]) > 0 => Bit(PSR(Now), 0) = 1
       /\ UserBit(PSR(Now)) = UserBit(PSR(pre))

\* ADD R2, R1, #-5 has just produced a negative value and set N alone
C9_Witness ==
    /\ RegisterWriteCompleted /\ instr = ADDIMM(2, 1, -5)
    /\ reg[2] = W(pre.reg[1] - 5) /\ reg[2] >= 32768
    /\ PSR(Now) % 8 = FLAG_N

\* C10: JSR and JSRR store the incremented PC in R7; JSR sets PC to the
\* incremented PC plus offset11 and JSRR sets PC to the value of SR1.
C10_JsrLinksAndJumps ==
    (Defined /\ Opcode(instr) = 4)
    => /\ reg[7] = W(pre.pc + 1)
       /\ Bit(instr, 11) = 1 => pc = pre.pc + 1 + sext11(instr % 2048)
       /\ Bit(instr, 11) = 0 => pc = pre.reg[SR1(instr)]

\* C11: PC is a 16-bit word address in every reachable state, 0 <= PC <=
\* 0xFFFF after every instruction; JMP through a register leaves PC equal to
\* the register's value, whatever it is in 0 .. 0xFFFF; the increment after a
\* fetch at 0xFFFF wraps to 0.
C11_PcIsWordAddress ==
    /\ pc \in 0 .. 65535
    /\ (Defined /\ Opcode(instr) = 12) => pc = pre.reg[SR1(instr)]
    /\ (Defined /\ pre.pc = 65535) => Pre.pc = 0

\* C12: RTI executed in user mode pops nothing and raises the privilege
\* exception: PC = memory[0x100], PSR bit 15 is cleared and nothing else of
\* the PSR changes, USP gets the user R6, R6 is loaded from SSP, and the
\* other registers and the rest of memory stay as they were.
C12_UserRtiRaisesPrivilegeException ==
    (Defined /\ Opcode(instr) = 8 /\ PreUser)
    => /\ pc = Read(pre.mem, 256)
       /\ PSR(Now) = PSR(pre) - Bit15
       /\ Read(mem, OS_USP) = pre.reg[6]
       /\ reg[6] = Read(pre.mem, OS_SSP)
       /\ \A r \in 0 .. 7 : r # 6 => reg[r] = pre.reg[r]
       /\ mem = Write(Write(Pre.mem, OS_USP, pre.reg[6]), OS_PSR,
                      PSR(pre) - Bit15)

\* a user program whose R6 differs from SSP has just executed RTI
C12_Witness ==
    /\ Defined /\ instr = RTI /\ PreUser
    /\ pre.reg[6] # Read(pre.mem, OS_SSP)
    /\ pc = PRIV_MODE_EXCEPTION /\ reg[6] = Read(pre.mem, OS_SSP)

\* the last iteration was a store that ran to completion: no access
\* violation, and its pointer stayed inside the allocation
StoreCompleted ==
    /\ Defined /\ IsStore
    /\ UsesPcRel => InBounds(PcRelPtr)
    /\ ~AccessFaults

\* C13: every completed ST, STI or STR whose effective address is DDR
\* (0xFE06) appends exactly one byte to the output buffer, the low byte of
\* the stored value, also when that value is 0; a completed store to any
\* other address appends nothing.
C13_StoreToDdrAppendsLowByte ==
    StoreCompleted
    => IF TargetAddr = OS_DDR
       THEN buffer = Append(pre.buffer, pre.reg[DR(instr)] % 256)
       ELSE buffer = pre.buffer

\* the last iteration was a load that ran to completion
LoadCompleted ==
    /\ Defined /\ IsLoad
    /\ UsesPcRel => InBounds(PcRelPtr)
    /\ ~AccessFaults

\* C14: every completed LD, LDI or LDR whose effective address is KBDR
\* (0xFE02) returns the pending character and advances the input cursor by
\* exactly one; a completed load from any other address leaves the cursor.
C14_LoadFromKbdrConsumes ==
    LoadCompleted
    => IF TargetAddr = OS_KBDR
       THEN /\ reg[DR(instr)] = Read(Pre.mem, OS_KBDR)
            /\ input_index = pre.input_index + 1
       ELSE input_index = pre.input_index

\* KBSR and KBDR of memory m agree with the input cursor idx: bit 15 of KBSR
\* is set iff a character is unread, and then KBDR holds it in its low byte
KeyboardFresh(m, idx) ==
    /\ UserBit(Read(m, OS_KBSR)) <=> idx < Len(input_buffer)
    /\ idx < Len(input_buffer)
          => Read(m, OS_KBDR) % 256 = input_buffer[idx + 1]

\* C15: the keyboard registers are refreshed before each instruction fetch:
\* the instruction fetched and executed is the word at PC of a memory whose
\* KBSR and KBDR agree with the input cursor, so that a guest store to KBSR
\* is gone when the next instruction is fetched.
C15_RefreshPrecedesFetch ==
    Defined
    => /\ KeyboardFresh(Pre.mem, pre.input_index)
       /\ instr = Read(Pre.mem, pre.pc)

\* the RTI of the last iteration returned to a user program from the GETC
\* trap (TRAP x20) it had issued
GetcReturned ==
    /\ BalancedReturn /\ UserBit(popped.psr)
    /\ Read(pre.mem, W(popped.ret - 1)) = TRAP(32)

\* C16: with scripted input c1 .. cn, the GETC that a user program issues
\* with k-1 characters consumed (k <= n) returns with R0 = ck and the cursor
\* at k: one character consumed, none skipped or repeated; when the n-th
\* has returned, KBSR bit 15 is 0.
C16_GetcDeliversInOrder ==
    (GetcReturned /\ popped.idx < Len(input_buffer))
    => /\ reg[0] = input_buffer[popped.idx + 1]
       /\ input_index = popped.idx + 1
       /\ input_index = Len(input_buffer) => ~UserBit(Read(mem, OS_KBSR))

\* C17: an instruction is fetched and executed only if MCR bit 15 is set at
\* the loop head; once an instruction has left it clear nothing is fetched
\* or executed and no register or memory word changes any more: every step
\* that changes the state starts with MCR bit 15 set.
C17_NoStepWithClockCleared == [][UserBit(Read(mem, OS_MCR))]_vars

\* the last instruction executed was the store that cleared MCR bit 15
C17_Witness ==
    /\ StoreCompleted /\ TargetAddr = OS_MCR
    /\ UserBit(Read(pre.mem, OS_MCR)) /\ ~UserBit(Read(mem, OS_MCR))

\* the characters of a zero-terminated string stored in the words of a
\* ROM routine from its k-th word on
RECURSIVE TextFrom(_, _)
TextFrom(code, k) ==
    IF k > Len(code) \/ code[k] = 0 THEN << >>
    ELSE << code[k] % 256 >> \o TextFrom(code, k + 1)

\* the routine entered through vector 0x100 + code and its message
ExceptionCode(code) ==
    CASE code = 0 -> PrivExcCode
      [] code = 1 -> IglInsExcCode
      [] code = 2 -> AcvExcCode
ExceptionMessage(code) == TextFrom(ExceptionCode(code), 4)
HaltBanner == TextFrom(HaltTrapCode, 10)

EndsWith(buf, text) ==
    /\ Len(buf) >= Len(text)
    /\ SubSeq(buf, Len(buf) - Len(text) + 1, Len(buf)) = text

\* no word of the OS ROM differs from the image (the boot code's own store
\* of the start address at USER_PC aside) and the display is ready
RomIntact == \A a \in DOMAIN mem : a < OsSize => a = USER_PC
DisplayReady == UserBit(Read(mem, OS_DSR))

\* the last iteration, in user mode, raised exception `code`
UserFault(code) ==
    /\ Defined /\ PreUser
    /\ CASE code = 0 -> Opcode(instr) = 8
         [] code = 1 -> Opcode(instr) = 13
         [] code = 2 -> AccessFaults

\* the machine stands halted, the message of exception `code` and the halt
\* banner being the last characters printed
HaltedAfter(code) ==
    /\ ~crashed
    /\ ~UserBit(Read(mem, OS_MCR))
    /\ EndsWith(buffer, ExceptionMessage(code) \o HaltBanner)

\* the handler of exception `code` has been entered in supervisor mode
InHandler(code) == pc = Read(pre.mem, 256 + code) /\ ~UserBit(PSR(Now))

\* a user-mode fault with the ROM intact and the display ready
FaultCase(code) == UserFault(code) /\ RomIntact /\ DisplayReady

RECURSIVE StringAt(_, _, _)
StringAt(m, a, n) ==
    IF n = 0 \/ Read(m, W(a)) = 0 THEN << >>
    ELSE << Read(m, W(a)) >> \o StringAt(m, a + 1, n - 1)

LowBytes(ws) == [i \in 1 .. Len(ws) |-> ws[i] % 256]

\* the RTI of the last iteration returned from a PUTS (TRAP x22) issued with
\* the ROM intact and the display ready
PutsReturned ==
    /\ BalancedReturn
    /\ Read(pre.mem, W(popped.ret - 1)) = TRAP(34)
    /\ RomIntact /\ DisplayReady

\* the output buffer has a copy of text somewhere
Contains(buf, text) ==
    \E k \in 0 .. Len(buf) - Len(text) :
        SubSeq(buf, k + 1, k + Len(text)) = text

\* PutsProgram, started in user mode by the boot code, has run until the
\* clock cleared
PutsProgramHalted ==
    /\ \A i \in 1 .. Len(PutsProgram) :
          Read(mem, UserOrigin + i - 1) = PutsProgram[i]
    /\ input_buffer = PutsRun.input /\ RomIntact
    /\ ~crashed /\ ~UserBit(Read(mem, OS_MCR))

\* C19: a PUTS called with R0 pointing at a zero-terminated string has, when
\* it returns, appended the low bytes of the string's words in order and
\* nothing else, and PC is the address after the TRAP; when PutsProgram has
\* halted the buffer contains "hi" followed by the halt banner (it is '%',
\* the low byte of the HALT word R0 points at, then "hi", then the banner).
C19_PutsAppendsLowBytes ==
    /\ PutsReturned
       => /\ Len(buffer) >= popped.out
          /\ SubSeq(buffer, popped.out + 1, Len(buffer))
                = LowBytes(StringAt(mem, popped.r0, MaxOut))
          /\ pc = popped.ret
    /\ PutsProgramHalted
       => /\ Contains(buffer, << 104, 105 >> \o HaltBanner)
          /\ buffer = << 37, 104, 105 >> \o HaltBanner

\* the PUTS of PutsProgram has returned: three characters were appended
C19_Witness ==
    /\ PutsReturned /\ UserBit(popped.psr)
    /\ popped.ret = UserOrigin + 2
    /\ Len(buffer) = popped.out + 3

\* C20: when parse_program_from_bin has loaded the file made of the
\* big-endian origin and the big-endian words w1 .. wN, origin + N <=
\* 0x10000, memory[origin + i - 1] = wi for every i and the value returned
\* is origin.
C20_ObjectFileRoundTrip ==
    (loaded.done /\ loaded.origin + Len(loaded.words) <= 65536)
    => /\ \A i \in 1 .. Len(loaded.words) :
             Read(mem, loaded.origin + i - 1) = loaded.words[i]
       /\ loaded.base = loaded.origin

\* the RTI that ends the boot code has just been executed: the next fetch
\* is the first one of the user program
BootReturned ==
    /\ Defined /\ ~PreUser /\ instr = RTI
    /\ pre.pc = OS_START + 7

\* the words of an object file as they lie in its bytes
FileWords(bytes) ==
    [i \in 1 .. (Len(bytes) - 2) \div 2 |->
        bytes[2 * i + 1] * 256 + bytes[2 * i + 2]]

\* C21: when main has processed a command line with at least one object
\* file, flags anywhere, the run has started; every file is in memory when
\* the run loop is entered; when the boot code has returned the machine is
\* in user mode with PC at the origin of the last positional argument.
C21_MainProgramIsLastFile ==
    LET files == Positional(cmdline.argv)
    IN (cmdline.status # "parsing" /\ files # << >>)
       => /\ cmdline.status = "running"
          /\ instr = -1
             => \A k \in 1 .. Len(files) :
                   \A i \in DOMAIN FileWords(files[k]) :
                      Read(mem, LoadBase(files[k]) + i - 1)
                         = FileWords(files[k])[i]
          /\ BootReturned
             => /\ pc = LoadBase(files[Len(files)])
                /\ UserBit(PSR(Now))

\* the routines of the ROM in the order they lie from 0x200 on
Routines ==
    << BadTrapCode, HaltTrapCode, OsStartCode, PutsTrapCode, OutTrapCode,
       GetcTrapCode, InTrapCode, PutspTrapCode, PrivExcCode, IglInsExcCode,
       AcvExcCode, BadIntCode >>

\* the address of the first word of the k-th routine
RECURSIVE EntryOf(_)
EntryOf(k) == IF k = 1 THEN 512 ELSE EntryOf(k - 1) + Len(Routines[k - 1])

\* the routine whose entry trap slot v should hold
TrapRoutine(v) ==
    CASE v = 32 -> 6   \* GETC
      [] v = 33 -> 5   \* OUT
      [] v = 34 -> 4   \* PUTS
      [] v = 35 -> 7   \* IN
      [] v = 36 -> 8   \* PUTSP
      [] v = 37 -> 2   \* HALT
      [] OTHER -> 1    \* Bad Trap

\* C22: in the ROM image every trap slot holds the address of the first
\* instruction of its routine (GETC, OUT, PUTS, IN, PUTSP, HALT at 0x20 ..
\* 0x25, Bad Trap elsewhere), slots 0x100, 0x101, 0x102 hold the entries of
\* the three exception handlers, and every slot 0x103 .. 0x1ff holds the
\* address of the LEA that opens the Bad-Interrupt handler.
C22_VectorsHoldHandlerEntries ==
    /\ \A v \in 0 .. 255 : image[v] = EntryOf(TrapRoutine(v))
    /\ \A c \in 0 .. 2 : image[256 + c] = EntryOf(9 + c)
    /\ image[EntryOf(12)] = LEA(0, 2)
    /\ \A c \in 3 .. 255 : image[256 + c] = EntryOf(12)

\* what C23 promises of the state after a TRAP executed in supervisor mode
SupervisorTrapEntered ==
    /\ ~UserBit(PSR(Now))
    /\ Read(mem, OS_USP) = Read(pre.mem, OS_USP)
    /\ Read(mem, OS_SSP) = Read(pre.mem, OS_SSP)
    /\ reg[6] = W(pre.reg[6] - 2)
    /\ Read(mem, reg[6]) = W(pre.pc + 1)
    /\ Read(mem, W(reg[6] + 1)) = PSR(pre)
    /\ pc = Read(mem, instr % 256)

PcPushMissesPsr == W(pre.reg[6] - 2) # OS_PSR

AcvRaised == pc = Read(pre.mem, 258)

\* C24: a load or store raises the access violation if and only if it is
\* executed in user mode and an address it checks is below 0x3000 or at or
\* above 0xFE00: in user mode 0x3000 and 0xFDFF pass, 0x2FFF and 0xFE00
\* fault, and no load or store executed in supervisor mode raises it.
C24_AccessViolationIffUserOutOfRange ==
    /\ (Defined /\ (IsLoad \/ IsStore) /\ (UsesPcRel => InBounds(PcRelPtr)))
       => (AcvRaised <=> AccessFaults)
    /\ (Defined /\ (IsLoad \/ IsStore) /\ ~PreUser) => ~AcvRaised
    /\ \A a \in {12287, 12288, 65023, 65024} :
          /\ check_user_address((PSR(Now) % Bit15) + Bit15, a)
                <=> a \in {12287, 65024}
          /\ ~check_user_address(PSR(Now) % Bit15, a)

\* a user-mode LDR of 0xFE00, one cell above the user range, has raised the
\* access violation after the LDR of 0xFDFF before it had loaded R1
C24_Witness ==
    /\ Defined /\ PreUser /\ instr = LDR(1, 5, 1)
    /\ BaseAddr = OS_KBSR /\ AcvRaised /\ ~UserBit(PSR(Now))
    /\ pre.pc = UserOrigin + 2

\* the PSR word a supervisor-mode RTI finds above the return PC
PoppedPsr == Read(pre.mem, W(pre.reg[6] + 1))

\* C25: an RTI executed in supervisor mode takes PC from memory[R6] and PSR
\* from memory[R6+1] and leaves the stack pointer at R6 + 2; when the popped
\* PSR has bit 15 set, SSP receives that pointer and R6 is loaded from USP;
\* when it has bit 15 clear, SSP and USP are unchanged and R6 is that
\* pointer.
C25_SupervisorRtiPops ==
    (Defined /\ instr = RTI /\ ~PreUser)
    => /\ pc = Read(pre.mem, pre.reg[6])
       /\ PSR(Now) = PoppedPsr
       /\ IF UserBit(PoppedPsr)
          THEN /\ Read(mem, OS_SSP) = W(pre.reg[6] + 2)
               /\ reg[6] = Read(pre.mem, OS_USP)
          ELSE /\ Read(mem, OS_SSP) = Read(pre.mem, OS_SSP)
               /\ Read(mem, OS_USP) = Read(pre.mem, OS_USP)
               /\ reg[6] = W(pre.reg[6] + 2)

\* the handler of trap 0x30 has returned to the user program with RTI: the
\* user stack pointer is back in R6 and SSP holds the emptied supervisor
\* stack
C25_Witness ==
    /\ Defined /\ instr = RTI /\ ~PreUser /\ UserBit(PoppedPsr)
    /\ pre.pc = UserOrigin + 1 /\ pc = 12305
    /\ pre.reg[6] # reg[6] /\ Read(mem, OS_SSP) = W(pre.reg[6] + 2)

\* the last iteration executed TRAP x25 in user mode, from a state with the
\* ROM intact and the display ready
HaltCase ==
    /\ Defined /\ PreUser /\ instr = TRAP(37)
    /\ \A a \in DOMAIN pre.mem : a < OsSize => a = USER_PC
    /\ UserBit(Read(pre.mem, OS_DSR))

\* the machine stands halted, the halt banner being the last characters
\* printed
HaltedWithBanner ==
    /\ ~crashed
    /\ ~UserBit(Read(mem, OS_MCR))
    /\ EndsWith(buffer, HaltBanner)

\* the last iteration executed the HALT routine's store to MCR
HaltStoresMcr ==
    /\ Defined /\ pre.pc = HALT_TRAP + 5 /\ instr = STI(0, 1)
    /\ IndirectAddr = OS_MCR

\* C26: from any user-mode state with the OS ROM unmodified and DSR bit 15
\* set, TRAP x25 leads to a halted machine (MCR bit 15 clear) whose output
\* ends with the banner of the HALT routine, and the routine's store to MCR
\* raises no access violation.
C26_UserHaltStopsClock ==
    /\ [](HaltStoresMcr => ~AcvRaised)
    /\ HaltCase ~> HaltedWithBanner

\* a user program has just executed TRAP x25 and the HALT routine has been
\* entered in supervisor mode on the stack at 0x3000
C26_Witness ==
    /\ HaltCase
    /\ pc = HALT_TRAP /\ ~UserBit(PSR(Now)) /\ reg[6] = 12286

\* C27: DSR bit 15 is set in every state of a run, whatever the guest
\* instructions executed in user or supervisor mode, so that the polling
\* loop of the OUT routine always exits.
C27_DisplayAlwaysReady == UserBit(Read(mem, OS_DSR))

\* the main program of the command line
MainProgram == cmdline.argv[Len(cmdline.argv)].file

\* the machine is in the boot code before its RTI, in supervisor mode
InBootCode ==
    /\ cmdline.status = "running"
    /\ pc >= OS_START /\ pc < OS_START + 7
    /\ ~UserBit(PSR(Now))

\* what C28 promises of the state after the RTI of the boot code
UserProgramEntered ==
    /\ pre.reg[6] = 12286
    /\ Read(pre.mem, 12287) = 32770
    /\ Read(pre.mem, 12286) = LoadBase(MainProgram)
    /\ PSR(Now) = 32770
    /\ pc = LoadBase(MainProgram)
    /\ Read(mem, OS_SSP) = 12288
    /\ reg[6] = Read(EmptyMem, OS_USP)
    /\ frames = << >> /\ buffer = << >>

\* C28: the run starts at PC = 0x230 in supervisor mode; the boot code runs
\* from there word by word in supervisor mode up to its RTI, so that no
\* user instruction is executed before it; the RTI finds the user PSR and
\* the user PC pushed at 0x2FFF and 0x2FFE and leaves the machine in user
\* mode with PSR = 0x8002, PC = the origin of the main program, SSP = 0x3000
\* and R6 = the initial USP.
C28_BootEntersUserProgram ==
    /\ []((cmdline.status = "running" /\ instr = -1)
            => (pc = OS_START /\ ~UserBit(PSR(Now))))
    /\ [][InBootCode => (pc' = pc + 1 /\ ~UserBit(PSR(Now))')]_vars
    /\ [](BootReturned => UserProgramEntered)

\* main was started on two object files and --randomize, and the boot code
\* has returned to the origin of the second file
C28_Witness ==
    /\ BootReturned /\ UserProgramEntered
    /\ HasFlag(cmdline.argv, "randomize")
    /\ Len(Positional(cmdline.argv)) = 2
    /\ pc = OriginB

\* the registers as main leaves them before the run loop: zero, or the
\* values --randomize drew
InitialRegisters == CmdScenario(cmdline.argv).registers

\* C29: when the first instruction of the user program is fetched, every
\* general register other than R6 holds the value it had before the start.
C29_RegistersSurviveBoot ==
    BootReturned => \A i \in (0 .. 7) \ {6} : reg[i] = InitialRegisters[i]

\* the cells the words of the loaded file are placed at
LoadedCells ==
    {a \in loaded.origin .. loaded.origin + Len(loaded.words) - 1 : a <= 65535}

\* C30: parse_program_from_bin changes no cell outside origin .. origin + N
\* - 1, N the number of whole words of the file: nothing beyond 0xFFFF (the
\* cells of SSP and USP included) is written, a trailing odd byte changes no
\* cell, and every other cell keeps the value it had.  (mem holds the cells
\* that differ from the memory the load started with.)
C30_LoadWritesOnlyItsCells ==
    loaded.done => DOMAIN mem \subseteq LoadedCells

\* ------------------------------------------------------------------ C31
\* w XOR 2^(k-1) for a k-bit field w
FlipTop(w, k) ==
    IF Bit(w, k - 1) = 1 THEN w - Pow2(k - 1) ELSE w + Pow2(k - 1)

\* the opcode's field width as the instruction set gives it
FieldWidth(ir) ==
    CASE Opcode(ir) \in {1, 5} -> 5
      [] Opcode(ir) \in {6, 7} -> 6
      [] Opcode(ir) = 4 -> 11
      [] OTHER -> 9

\* C31: sign extension at width k maps the k-bit field w to
\* (w XOR 2^(k-1)) - 2^(k-1) modulo 2^16, for every k-bit input, and each
\* instruction extends its field at its own width: 5 for the ADD and AND
\* immediates, 6 for the LDR and STR offsets, 9 for the PC-relative
\* instructions, 11 for JSR.
C31_SignExtension ==
    (call.done /\ call.fn # "") =>
        /\ SextWidth(call.fn) = FieldWidth(call.ir)
        /\ call.input = call.ir % Pow2(FieldWidth(call.ir))
        /\ W(call.result)
              = (FlipTop(call.input, FieldWidth(call.ir))
                 - Pow2(FieldWidth(call.ir) - 1)) % 65536

\* a negative 9-bit offset has been extended
C31_Witness ==
    /\ call.done
    /\ call.fn = "sext9"
    /\ call.input = 511
    /\ call.result = -1

\* ------------------------------------------------------------------ C32
\* the last iteration executed a BR whose nzp field meets the condition
\* codes it found
BranchCondition == BitAnd(DR(instr), PSR(pre) % 8) # 0

\* C32: BR is taken (PC = incremented PC + sign-extended offset9) iff nzp
\* AND PSR bits 2..0 is non-zero; nzp = 000 always falls through; with
\* exactly one condition code set nzp = 111 is always taken; BR changes no
\* register, no memory word and no PSR bit.
C32_BranchIffConditionMet ==
    (Defined /\ Opcode(instr) = 0)
    => /\ BranchCondition => pc = Pre.pc + sext9(instr % 512)
       /\ ~BranchCondition => pc = Pre.pc
       /\ DR(instr) = 0 => pc = Pre.pc
       /\ (DR(instr) = 7 /\ ExactlyOneNZP(PSR(pre)))
             => pc = Pre.pc + sext9(instr % 512)
       /\ reg = pre.reg
       /\ mem = Pre.mem

\* a backward branch has been taken on one condition code of three
C32_Witness ==
    /\ Defined /\ Opcode(instr) = 0
    /\ DR(instr) \notin {0, 7}
    /\ BranchCondition
    /\ sext9(instr % 512) < 0
    /\ pc = pre.pc + 1 + sext9(instr % 512)

\* ------------------------------------------------------------------ C35
\* C35: every cell the simulator reads or writes lies inside the allocated
\* image (0 .. 0x10001), and the cell LD, ST, LDI and STI access through
\* PC + offset9 is the cell at (PC + offset9) mod 2^16, the address the
\* access check validates, also when the sum is negative or above 0xFFFF.
C35_AccessesStayInImage ==
    instr # -1
    => /\ InBounds(pre.pc)
       /\ UsesPcRel => (InBounds(PcRelPtr) /\ PcRelPtr = PcRelAddr)

\* ------------------------------------------------------------------ C36
\* the last iteration was a TRAP x20 executed with every scripted input
\* character consumed and the ROM as loaded
StarvedGetcEntered ==
    /\ Defined /\ instr = TRAP(32)
    /\ pre.input_index >= Len(input_buffer)
    /\ RomIntact

\* the machine is in the polling loop of GETC and nothing of the pending
\* TRAP has moved: the input cursor and R6 are those the TRAP left
StarvedGetcPolling ==
    /\ ~crashed
    /\ UserBit(Read(mem, OS_MCR))
    /\ pc \in {596, 597}
    /\ frames # << >>
    /\ input_index = frames[Len(frames)].idx
    /\ reg[6] = frames[Len(frames)].sp

\* C36: a TRAP x20 executed when no unread scripted input remains never
\* returns: the machine stays in the KBSR polling loop at 0x254 .. 0x255
\* forever, the input cursor and R6 never change again and MCR bit 15 is
\* never cleared.
C36_StarvedGetcNeverReturns ==
    [](StarvedGetcEntered => []StarvedGetcPolling)

\* the polling branch has been taken back to 0x254 with no input left
C36_Witness ==
    /\ Defined /\ instr = BR(3, -2) /\ pre.pc = 597 /\ pc = 596
    /\ frames # << >>
    /\ input_index >= Len(input_buffer)
    /\ Read(mem, frames[Len(frames)].ret - 1) = TRAP(32)
    /\ RomIntact

\* ------------------------------------------------------------------ C37
\* the RTI of the last iteration returned from service trap v, called with
\* the ROM as loaded
ServiceReturned(v) ==
    /\ BalancedReturn
    /\ Read(pre.mem, W(popped.ret - 1)) = TRAP(v)
    /\ RomIntact

\* registers lo .. 7 are as the TRAP found them
RegistersKept(lo) == \A r \in lo .. 7 : reg[r] = popped.regs[r]

\* the character the GETC or IN that has returned was to read
CharacterRead == input_buffer[popped.idx + 1]

\* C37: the OS service traps preserve the caller's registers: after OUT,
\* PUTS or PUTSP returns R0 .. R7 are as before the TRAP; after GETC or IN
\* returns R1 .. R7 are as before the TRAP and R0 holds the character read;
\* in all five cases SSP is back at its value from before the TRAP.
C37_ServiceTrapsKeepRegisters ==
    /\ \A v \in {33, 34, 36} :
          ServiceReturned(v)
          => RegistersKept(0) /\ Read(mem, OS_SSP) = popped.ssp
    /\ \A v \in {32, 35} :
          ServiceReturned(v)
          => /\ RegistersKept(1)
             /\ reg[0] = CharacterRead
             /\ Read(mem, OS_SSP) = popped.ssp

\* ------------------------------------------------------------------ C33
\* the line debug_cmd obeyed last, and the addresses with a breakpoint
LastCmd == stdin.script[stdin.read]
BreakpointSet ==
    { debug_ctx.breakpoints[i] :
        i \in 0 .. Min(debug_ctx.breakpoint_size, BREAKPOINT_MAX) - 1 }

\* the run loop is executing on behalf of a continue
Continuing == debug /\ at = "run" /\ stdin.read > 0 /\ LastCmd.cmd = "continue"

GotoNext ==
    /\ at = "prompt" /\ stdin.read < Len(stdin.script)
    /\ stdin.script[stdin.read + 1].cmd = "goto"
GotoDone == debug /\ at = "run" /\ stdin.read > 0 /\ LastCmd.cmd = "goto"

\* C34: the debugger command goto <address> sets PC to that address: the
\* next instruction fetched and executed is the word at <address>; PSR and
\* the stack pointers are unchanged.
C34_GotoSetsPc ==
    /\ [][GotoNext
             => /\ pc' = stdin.script[stdin.read + 1].addr
                /\ mem' = mem
                /\ reg' = reg]_vars
    /\ [][(GotoDone /\ at' = "prompt")
             => /\ pre'.pc = LastCmd.addr
                /\ instr' = Read(mem, LastCmd.addr)]_vars

\* ------------------------------------------------------------------ C38
\* C38: after any sequence of breakpoint commands (add, remove, pop, clear)
\* from the single automatic breakpoint, the list has no duplicate and
\* 0 <= breakpoint_size <= 67.
C38_BreakpointListWellFormed ==
    debug
    => /\ debug_ctx.breakpoint_size >= 0
       /\ debug_ctx.breakpoint_size <= BREAKPOINT_MAX
       /\ \A i, j \in 0 .. debug_ctx.breakpoint_size - 1 :
             i # j => debug_ctx.breakpoints[i] # debug_ctx.breakpoints[j]

\* ------------------------------------------------------------------ C39
\* buffer has just been printed with %s: by the RTI that returned to user
\* mode under --debug, or the run loop has ended
BufferPrinted ==
    /\ ~crashed
    /\ \/ at = "run" /\ ~UserBit(Read(mem, OS_MCR))
       \/ debug /\ Defined /\ instr = RTI /\ ~PreUser /\ UserBit(PSR(Now))

\* the bound on ddrct and the preservation of the bytes emitted
BufferGrowsSafely ==
    /\ [](Len(buffer) < ddrsize - 1)
    /\ [][SubSeq(buffer', 1, Len(buffer)) = buffer]_vars

\* C39: the output buffer is well formed: ddrct is always below
\* ddrsize - 1, growth never changes a byte emitted before, and the byte at
\* index ddrct is 0 whenever the buffer is printed as a string (on the
\* return to user mode under --debug, and at halt).
C39_BufferWellFormed ==
    /\ BufferGrowsSafely
    /\ [](BufferPrinted => terminator = 0)

=============================================================================
